---------------------------- MODULE Spec2Model ----------------------------
(***************************************************************************)
(* Coke-oven cycle derivation: the record store (three SQLite tables kept  *)
(* as TEXT-keyed rows), the time parser, the temperature accessor, the     *)
(* interpolator, the integrator, the cycle matcher and the process-wide    *)
(* handle behind the foreign-call boundary.                                *)
(*                                                                         *)
(* Conventions of the model                                                *)
(*  - A timestamp text is the sequence of its characters; SQLite compares  *)
(*    TEXT columns byte by byte (BINARY collation), chrono parses them.    *)
(*  - An instant is [day, sec]: chrono's NaiveDateTime (date, time of day).*)
(*  - An f64 is an exact rational <<num, den>>, or +inf, -inf, NaN; f64   *)
(*    rounding is not modelled.                                            *)
(*  - Arguments reach the core by value: the C strings handed to the       *)
(*    boundary are valid, so c_char_to_string succeeds.                    *)
(***************************************************************************)
EXTENDS Integers, Sequences, FiniteSets, TLC

(***************************************************************************)
(* Characters and texts                                                    *)
(***************************************************************************)
Digits == <<"0", "1", "2", "3", "4", "5", "6", "7", "8", "9">>

IsDigit(c) == \E i \in 1..10 : Digits[i] = c

DigitVal(c) == (CHOOSE i \in 1..10 : Digits[i] = c) - 1

\* The byte of a character (ASCII), the unit of SQLite's BINARY collation.
Byte(c) ==
    IF IsDigit(c) THEN 48 + DigitVal(c)
    ELSE CASE c = " " -> 32
           [] c = "-" -> 45
           [] c = ":" -> 58
           [] c = "T" -> 84
           [] OTHER   -> 127

\* memcmp order of two TEXT values: a < b.
RECURSIVE TextLessFrom(_, _, _)
TextLessFrom(a, b, i) ==
    IF i > Len(b) THEN FALSE
    ELSE IF i > Len(a) THEN TRUE
    ELSE IF Byte(a[i]) # Byte(b[i]) THEN Byte(a[i]) < Byte(b[i])
    ELSE TextLessFrom(a, b, i + 1)

\* The characters of each timestamp text the callers submit.
Chars(t) ==
    CASE t = "2025-06-18" ->
           <<"2","0","2","5","-","0","6","-","1","8">>
      [] t = "2025-06-18 00:01:30" ->
           <<"2","0","2","5","-","0","6","-","1","8"," ","0","0",":","0","1",":","3","0">>
      [] t = "2025-06-18 00:03" ->
           <<"2","0","2","5","-","0","6","-","1","8"," ","0","0",":","0","3">>
      [] t = "2025-06-18 00:03:00" ->
           <<"2","0","2","5","-","0","6","-","1","8"," ","0","0",":","0","3",":","0","0">>
      [] t = "2025-06-18T08:16" ->
           <<"2","0","2","5","-","0","6","-","1","8","T","0","8",":","1","6">>
      [] t = "0001-01-01" ->
           <<"0","0","0","1","-","0","1","-","0","1">>
      [] t = "2025-06-18 08:16" ->
           <<"2","0","2","5","-","0","6","-","1","8"," ","0","8",":","1","6">>
      [] t = "2025-06-19 12:45" ->
           <<"2","0","2","5","-","0","6","-","1","9"," ","1","2",":","4","5">>
      [] t = "9999-12-31 23:59:59" ->
           <<"9","9","9","9","-","1","2","-","3","1"," ","2","3",":","5","9",":","5","9">>

\* Texts of one day in the three formats (two of them name one instant), and one
\* text no format matches.
TimeTexts ==
    {"2025-06-18", "2025-06-18 00:01:30", "2025-06-18 00:03", "2025-06-18 00:03:00",
     "2025-06-18T08:16"}

\* Texts up to millennia apart.
WideTimeTexts ==
    {"0001-01-01", "2025-06-18 08:16", "2025-06-19 12:45", "9999-12-31 23:59:59",
     "2025-06-18T08:16"}

AllTexts == TimeTexts \cup WideTimeTexts

(***************************************************************************)
(* chrono: parse_from_str                                                  *)
(***************************************************************************)
\* Format items: a numeric field, a literal character, or white space.
FmtSeconds == <<"Y", "-", "m", "-", "d", " ", "H", ":", "M", ":", "S">>
FmtMinutes == <<"Y", "-", "m", "-", "d", " ", "H", ":", "M">>
FmtDate    == <<"Y", "-", "m", "-", "d">>

IsNumeric(item) == item \in {"Y", "m", "d", "H", "M", "S"}

\* The widest a numeric field is read.
FieldWidth(item) == IF item = "Y" THEN 4 ELSE 2

\* First position at or after p that holds no white space.
RECURSIVE TrimStart(_, _)
TrimStart(s, p) ==
    IF p <= Len(s) /\ s[p] = " " THEN TrimStart(s, p + 1) ELSE p

\* Number of digits at p, at most w.
RECURSIVE DigitRun(_, _, _)
DigitRun(s, p, w) ==
    IF w > 0 /\ p <= Len(s) /\ IsDigit(s[p]) THEN 1 + DigitRun(s, p + 1, w - 1) ELSE 0

RECURSIVE NumberAt(_, _, _)
NumberAt(s, p, n) ==
    IF n = 0 THEN 0 ELSE NumberAt(s, p, n - 1) * 10 + DigitVal(s[p + n - 1])

NoFields == [ok |-> TRUE, Y |-> 0, m |-> 0, d |-> 0, H |-> 0, M |-> 0, S |-> 0]

\* Reads the items from i on against s from p on; ok is FALSE when an item does
\* not match or text is left over.
RECURSIVE ParseItems(_, _, _, _, _)
ParseItems(s, fmt, i, p, f) ==
    IF i > Len(fmt) THEN [f EXCEPT !.ok = (p > Len(s))]
    ELSE IF IsNumeric(fmt[i]) THEN
        LET q == TrimStart(s, p)
            n == DigitRun(s, q, FieldWidth(fmt[i]))
        IN  IF n = 0 THEN [f EXCEPT !.ok = FALSE]
            ELSE ParseItems(s, fmt, i + 1, q + n, [f EXCEPT ![fmt[i]] = NumberAt(s, q, n)])
    ELSE IF fmt[i] = " " THEN ParseItems(s, fmt, i + 1, TrimStart(s, p), f)
    ELSE IF p <= Len(s) /\ s[p] = fmt[i] THEN ParseItems(s, fmt, i + 1, p + 1, f)
    ELSE [f EXCEPT !.ok = FALSE]

IsLeap(y) == (y % 4 = 0 /\ y % 100 # 0) \/ y % 400 = 0

DaysInMonth(y, m) ==
    IF m = 2 THEN (IF IsLeap(y) THEN 29 ELSE 28)
    ELSE IF m \in {4, 6, 9, 11} THEN 30 ELSE 31

\* Day number of a civil date (proleptic Gregorian, day 0 = 0000-03-01).
DaysFromCivil(y, m, d) ==
    LET yy  == IF m <= 2 THEN y - 1 ELSE y
        era == yy \div 400
        yoe == yy - era * 400
        mp  == (m + 9) % 12
        doy == (153 * mp + 2) \div 5 + d - 1
        doe == yoe * 365 + yoe \div 4 - yoe \div 100 + doy
    IN  era * 146097 + doe

\* Seconds run to 59: a second of 60 (chrono's leap second) is in no text submitted.
ValidFields(f) ==
    /\ f.m \in 1..12
    /\ f.d >= 1 /\ f.d <= DaysInMonth(f.Y, f.m)
    /\ f.H \in 0..23 /\ f.M \in 0..59 /\ f.S \in 0..59

NoInstant == [ok |-> FALSE, day |-> 0, sec |-> 0]

\* NaiveDateTime::parse_from_str / NaiveDate::parse_from_str.
ParseFromStr(s, fmt) ==
    LET f == ParseItems(s, fmt, 1, 1, NoFields)
    IN  IF f.ok /\ ValidFields(f)
        THEN [ok |-> TRUE, day |-> DaysFromCivil(f.Y, f.m, f.d),
              sec |-> f.H * 3600 + f.M * 60 + f.S]
        ELSE NoInstant

(***************************************************************************)
(* models.rs: parse_time                                                   *)
(***************************************************************************)
\* A parser that knows the two date-and-time formats only.
ParseTimeText_TwoFormats(time_str) ==
    LET a == ParseFromStr(time_str, FmtSeconds)
        b == ParseFromStr(time_str, FmtMinutes)
    IN  IF a.ok THEN a ELSE b

\* The first of the three formats that matches the whole text.
ParseTimeText(time_str) ==
    LET a == ParseFromStr(time_str, FmtSeconds)
        b == ParseFromStr(time_str, FmtMinutes)
        c == ParseFromStr(time_str, FmtDate)
    IN  IF a.ok THEN a ELSE IF b.ok THEN b ELSE c

\* Evaluated once per text.
ParseTable == [t \in AllTexts |-> ParseTimeText(Chars(t))]

parse_time(time_str) == ParseTable[time_str]

LessTable == [p \in AllTexts \X AllTexts |-> TextLessFrom(Chars(p[1]), Chars(p[2]), 1)]

\* SQLite: a < b on TEXT values.
TextLess(a, b) == LessTable[<<a, b>>]

TextLeq(a, b) == a = b \/ TextLess(a, b)

\* chrono: a < b on NaiveDateTime values.
InstantLess(a, b) == a.day < b.day \/ (a.day = b.day /\ a.sec < b.sec)

\* (b - a).num_seconds()
NumSeconds(a, b) == (b.day - a.day) * 86400 + (b.sec - a.sec)

(***************************************************************************)
(* f64 values: exact rationals <<numerator, denominator>> in lowest terms  *)
(* with denominator > 0, and the three values that are not finite;         *)
(* rounding and the sign of zero are left out.                             *)
(***************************************************************************)
Inf == <<1, 0>>

NegInf == <<-1, 0>>

NaN == <<0, 0>>

IsFinite(a) == a[2] # 0

Sign(a) == IF a[1] > 0 THEN 1 ELSE IF a[1] < 0 THEN -1 ELSE 0

RECURSIVE Gcd(_, _)
Gcd(a, b) == IF b = 0 THEN a ELSE Gcd(b, a % b)

Abs(a) == IF a < 0 THEN -a ELSE a

Q(n, d) ==
    LET g == Gcd(Abs(n), Abs(d))
    IN  IF d < 0 THEN <<(-n) \div g, (-d) \div g>> ELSE <<n \div g, d \div g>>

QInt(n) == <<n, 1>>

QAddFinite(a, b) ==
    LET g == Gcd(a[2], b[2])
    IN  Q(a[1] * (b[2] \div g) + b[1] * (a[2] \div g), (a[2] \div g) * b[2])

QAdd(a, b) ==
    IF IsFinite(a) /\ IsFinite(b) THEN QAddFinite(a, b)
    ELSE IF a = NaN \/ b = NaN THEN NaN
    ELSE IF IsFinite(b) THEN a
    ELSE IF IsFinite(a) \/ a = b THEN b
    ELSE NaN

QSub(a, b) == QAdd(a, <<-b[1], b[2]>>)

QMulFinite(a, b) ==
    LET x == Q(a[1], b[2])
        y == Q(b[1], a[2])
    IN  <<x[1] * y[1], x[2] * y[2]>>

QMul(a, b) ==
    IF IsFinite(a) /\ IsFinite(b) THEN QMulFinite(a, b)
    ELSE <<Sign(a) * Sign(b), 0>>

QDiv(a, b) ==
    IF a = NaN \/ b = NaN THEN NaN
    ELSE IF ~IsFinite(b) THEN (IF IsFinite(a) THEN QInt(0) ELSE NaN)
    ELSE IF b[1] = 0 THEN <<Sign(a), 0>>
    ELSE IF ~IsFinite(a) THEN <<Sign(a) * Sign(b), 0>>
    ELSE QMulFinite(a, Q(b[2], b[1]))

(***************************************************************************)
(* f64 arithmetic with rounding, for the integrator called on its own: a   *)
(* finite f64 other than zero is [neg, m, e], the value m * 2^e (negated   *)
(* when neg) with 2^52 <= m < 2^53; m is written in limbs of 15 bits,      *)
(* least significant first.  Every operation yields the exact result       *)
(* rounded to 53 bits, to nearest, ties to even (IEEE 754).  Overflow,     *)
(* subnormal numbers and the values that are not finite are outside the    *)
(* readings of this part.                                                  *)
(***************************************************************************)
MantissaBits == 53

LimbBits == 15

LimbBase == 32768

RECURSIVE Pow2(_)
Pow2(k) == IF k = 0 THEN 1 ELSE 2 * Pow2(k - 1)

\* Without leading zero limbs.
RECURSIVE LimbsTrim(_)
LimbsTrim(a) ==
    IF a = <<>> THEN <<>>
    ELSE IF a[Len(a)] = 0 THEN LimbsTrim(SubSeq(a, 1, Len(a) - 1)) ELSE a

\* The limbs of a natural number below 2^31.
NatLimbs(n) ==
    LimbsTrim(<<n % LimbBase, (n \div LimbBase) % LimbBase, n \div (LimbBase * LimbBase)>>)

LimbAt(a, i) == IF i <= Len(a) THEN a[i] ELSE 0

RECURSIVE LimbsAddFrom(_, _, _, _)
LimbsAddFrom(a, b, i, carry) ==
    IF i > Len(a) /\ i > Len(b) THEN (IF carry = 1 THEN <<1>> ELSE <<>>)
    ELSE <<(LimbAt(a, i) + LimbAt(b, i) + carry) % LimbBase>>
         \o LimbsAddFrom(a, b, i + 1, (LimbAt(a, i) + LimbAt(b, i) + carry) \div LimbBase)

LimbsAdd(a, b) == LimbsAddFrom(a, b, 1, 0)

\* a - b for a >= b.
RECURSIVE LimbsSubFrom(_, _, _, _)
LimbsSubFrom(a, b, i, borrow) ==
    IF i > Len(a) THEN <<>>
    ELSE <<(a[i] + LimbBase - LimbAt(b, i) - borrow) % LimbBase>>
         \o LimbsSubFrom(a, b, i + 1, IF a[i] - LimbAt(b, i) - borrow < 0 THEN 1 ELSE 0)

LimbsSub(a, b) == LimbsTrim(LimbsSubFrom(a, b, 1, 0))

\* a < b below limb i + 1, for numbers of one length.
RECURSIVE LimbsLessFrom(_, _, _)
LimbsLessFrom(a, b, i) ==
    IF i = 0 THEN FALSE
    ELSE IF a[i] # b[i] THEN a[i] < b[i]
    ELSE LimbsLessFrom(a, b, i - 1)

LimbsLess(a, b) ==
    IF Len(a) # Len(b) THEN Len(a) < Len(b) ELSE LimbsLessFrom(a, b, Len(a))

\* a * d for a limb d.
RECURSIVE LimbsTimesFrom(_, _, _, _)
LimbsTimesFrom(a, d, i, carry) ==
    IF i > Len(a) THEN (IF carry = 0 THEN <<>> ELSE <<carry>>)
    ELSE <<(a[i] * d + carry) % LimbBase>>
         \o LimbsTimesFrom(a, d, i + 1, (a[i] * d + carry) \div LimbBase)

LimbsTimes(a, d) == IF d = 0 THEN <<>> ELSE LimbsTimesFrom(a, d, 1, 0)

\* a * LimbBase^n.
LimbsUp(a, n) == IF a = <<>> THEN <<>> ELSE [i \in 1..n |-> 0] \o a

RECURSIVE LimbsMulFrom(_, _, _, _)
LimbsMulFrom(a, b, i, acc) ==
    IF i > Len(b) THEN acc
    ELSE LimbsMulFrom(a, b, i + 1, LimbsAdd(acc, LimbsUp(LimbsTimes(a, b[i]), i - 1)))

LimbsMul(a, b) == LimbsMulFrom(a, b, 1, <<>>)

\* a * 2^k and a div 2^k.
LimbsShl(a, k) == LimbsUp(LimbsTimes(a, Pow2(k % LimbBits)), k \div LimbBits)

LimbsShrWithin(a, r) ==
    LimbsTrim([i \in 1..Len(a) |->
                  (a[i] \div Pow2(r)) + (LimbAt(a, i + 1) % Pow2(r)) * Pow2(LimbBits - r)])

LimbsShr(a, k) ==
    IF k \div LimbBits >= Len(a) THEN <<>>
    ELSE LimbsShrWithin(SubSeq(a, k \div LimbBits + 1, Len(a)), k % LimbBits)

\* Number of bits of a limb, and of a number.
RECURSIVE LimbLen(_)
LimbLen(d) == IF d = 0 THEN 0 ELSE 1 + LimbLen(d \div 2)

BitLen(a) == IF a = <<>> THEN 0 ELSE LimbBits * (Len(a) - 1) + LimbLen(a[Len(a)])

\* Bit j of a, the lowest being bit 1.
BitOf(a, j) == (LimbAt(a, (j - 1) \div LimbBits + 1) \div Pow2((j - 1) % LimbBits)) % 2

\* Some one bit of a below bit k.
AnyBitBelow(a, k) == LimbsShl(LimbsShr(a, k - 1), k - 1) # a

\* The greatest limb q in lo..hi with q * b <= r.
RECURSIVE QuotientLimb(_, _, _, _)
QuotientLimb(r, b, lo, hi) ==
    IF lo = hi THEN lo
    ELSE IF LimbsLess(r, LimbsTimes(b, (lo + hi + 1) \div 2))
         THEN QuotientLimb(r, b, lo, (lo + hi + 1) \div 2 - 1)
         ELSE QuotientLimb(r, b, (lo + hi + 1) \div 2, hi)

LimbsDivStep(a, b, i, quot, r, q) == <<<<q>> \o quot, LimbsSub(r, LimbsTimes(b, q))>>

\* Long division of a by b # 0 from limb i down: <<quotient, remainder>>.
RECURSIVE LimbsDivFrom(_, _, _, _)
LimbsDivFrom(a, b, i, qr) ==
    IF i = 0 THEN <<LimbsTrim(qr[1]), qr[2]>>
    ELSE LimbsDivFrom(a, b, i - 1,
            LimbsDivStep(a, b, i, qr[1], LimbsTrim(<<a[i]>> \o qr[2]),
                         QuotientLimb(LimbsTrim(<<a[i]>> \o qr[2]), b, 0, LimbBase - 1)))

LimbsDivMod(a, b) == LimbsDivFrom(a, b, Len(a), <<<<>>, <<>>>>)

F64Zero == [neg |-> FALSE, m |-> <<>>, e |-> 0]

\* m * 2^e for m # 0 of at most 53 bits, or m = 2^53.
F64Norm(neg, m, e) ==
    IF BitLen(m) > MantissaBits THEN [neg |-> neg, m |-> LimbsShr(m, 1), e |-> e + 1]
    ELSE [neg |-> neg, m |-> LimbsShl(m, MantissaBits - BitLen(m)),
          e |-> e - (MantissaBits - BitLen(m))]

\* The k low bits dropped: up when they are more than half a unit of the last
\* kept bit, or exactly half and the last kept bit is odd.
F64RoundDropping(neg, m, e, k, inexact) ==
    IF BitOf(m, k) = 1 /\ (inexact \/ AnyBitBelow(m, k) \/ BitOf(m, k + 1) = 1)
    THEN F64Norm(neg, LimbsAdd(LimbsShr(m, k), <<1>>), e + k)
    ELSE F64Norm(neg, LimbsShr(m, k), e + k)

\* The value m * 2^e (plus a fraction of 2^e when inexact) rounded to 53 bits.
F64Round(neg, m, e, inexact) ==
    IF m = <<>> THEN F64Zero
    ELSE IF BitLen(m) <= MantissaBits THEN F64Norm(neg, m, e)
    ELSE F64RoundDropping(neg, m, e, BitLen(m) - MantissaBits, inexact)

\* n as f64, for |n| < 2^31.
F64OfInt(n) == F64Round(n < 0, NatLimbs(IF n < 0 THEN -n ELSE n), 0, FALSE)

F64MinE(x, y) == IF x.e < y.e THEN x.e ELSE y.e

\* Magnitudes xm and ym on the common exponent e.
F64AddAligned(xneg, xm, yneg, ym, e) ==
    IF xneg = yneg THEN F64Round(xneg, LimbsAdd(xm, ym), e, FALSE)
    ELSE IF LimbsLess(xm, ym) THEN F64Round(yneg, LimbsSub(ym, xm), e, FALSE)
    ELSE F64Round(xneg, LimbsSub(xm, ym), e, FALSE)

F64Add(x, y) ==
    IF x.m = <<>> THEN y
    ELSE IF y.m = <<>> THEN x
    ELSE F64AddAligned(x.neg, LimbsShl(x.m, x.e - F64MinE(x, y)),
                       y.neg, LimbsShl(y.m, y.e - F64MinE(x, y)), F64MinE(x, y))

F64Mul(x, y) ==
    IF x.m = <<>> \/ y.m = <<>> THEN F64Zero
    ELSE F64Round(x.neg # y.neg, LimbsMul(x.m, y.m), x.e + y.e, FALSE)

\* Bits the dividend is shifted by, for a quotient of 53 + 3 bits or one more.
F64DivShift == MantissaBits + 3

F64DivRounded(neg, qr, e) == F64Round(neg, qr[1], e, qr[2] # <<>>)

\* x / y for y # 0.
F64Div(x, y) ==
    IF x.m = <<>> THEN F64Zero
    ELSE F64DivRounded(x.neg # y.neg, LimbsDivMod(LimbsShl(x.m, F64DivShift), y.m),
                       x.e - y.e - F64DivShift)

(***************************************************************************)
(* db.rs: the three tables                                                 *)
(***************************************************************************)
\* A storage file nothing was written to yet.
NoTables == [created |-> FALSE, temperature_records |-> {}, operation_records |-> {},
             coking_cycles |-> {}]

\* A schema that drops and creates the tables instead of CREATE TABLE IF NOT EXISTS.
initialize_db_Recreate(db) == [NoTables EXCEPT !.created = TRUE]

\* initialize_db: CREATE TABLE IF NOT EXISTS keeps the tables that exist.
initialize_db(db) == [db EXCEPT !.created = TRUE]

\* UNIQUE(coke_oven, time) of temperature_records, on the stored TEXT.
TempUniqueViolated(db, row) ==
    \E r \in db.temperature_records : r.coke_oven = row.coke_oven /\ r.time = row.time

\* UNIQUE(coke_oven, chamber, time) of operation_records, on the stored TEXT.
OpUniqueViolated(db, row) ==
    \E r \in db.operation_records :
        r.coke_oven = row.coke_oven /\ r.chamber = row.chamber /\ r.time = row.time

\* UNIQUE(coke_oven, chamber, push_time) of coking_cycles, on the stored TEXT.
CycleUniqueViolated(db, row) ==
    \E r \in db.coking_cycles :
        r.coke_oven = row.coke_oven /\ r.chamber = row.chamber /\ r.push_time = row.push_time

\* A nullable REAL column.
Null == [null |-> TRUE, val |-> <<0, 1>>]

Some(v) == [null |-> FALSE, val |-> v]

\* A bound f64: SQLite stores a NaN as NULL.
BindReal(v) == IF v = NaN THEN Null ELSE Some(v)

\* machine_side REAL NOT NULL, coke_side REAL NOT NULL
TempNotNullViolated(row) == BindReal(row.machine_side).null \/ BindReal(row.coke_side).null

(***************************************************************************)
(* oven.rs: the oven configuration                                         *)
(***************************************************************************)
\* The ovens of the static configuration, each with its chamber labels.
initialize_ovens == [o \in {1, 2, 3} |-> {"1#", "2#", "48#"}]

is_valid_chamber(ovens, coke_oven, chamber) == chamber \in ovens[coke_oven]

(***************************************************************************)
(* models.rs: interpolate_temp                                             *)
(***************************************************************************)
\* Option<TempRecord>
NoRecord ==
    [some |-> FALSE, time |-> NoInstant, machine_side |-> QInt(0), coke_side |-> QInt(0)]

TempRecord(row) ==
    [some |-> TRUE, time |-> parse_time(row.time),
     machine_side |-> row.machine_side, coke_side |-> row.coke_side]

\* Option<(f64, f64)>
NoPair == [some |-> FALSE, machine |-> <<0, 1>>, coke |-> <<0, 1>>]

Pair(m, c) == [some |-> TRUE, machine |-> m, coke |-> c]

interpolate_temp(prev, next, target) ==
    IF prev.some /\ next.some THEN
        LET total_secs == NumSeconds(prev.time, next.time)
        IN  IF total_secs = 0
            THEN Pair(prev.machine_side, prev.coke_side)
            ELSE LET ratio == Q(NumSeconds(prev.time, target), total_secs)
                 IN  Pair(QAdd(prev.machine_side,
                               QMul(QSub(next.machine_side, prev.machine_side), ratio)),
                          QAdd(prev.coke_side,
                               QMul(QSub(next.coke_side, prev.coke_side), ratio)))
    ELSE IF prev.some THEN Pair(prev.machine_side, prev.coke_side)
    ELSE IF next.some THEN Pair(next.machine_side, next.coke_side)
    ELSE NoPair

(***************************************************************************)
(* system.rs: the temperature accessor                                     *)
(***************************************************************************)
\* The row of a non-empty set with the greatest / the smallest TEXT time.
MaxByText(rows) == CHOOSE r \in rows : \A o \in rows : TextLeq(o.time, r.time)

MinByText(rows) == CHOOSE r \in rows : \A o \in rows : TextLeq(r.time, o.time)

\* ORDER BY time ASC
RECURSIVE OrderByTimeAsc(_)
OrderByTimeAsc(rows) ==
    IF rows = {} THEN <<>>
    ELSE LET r == MinByText(rows) IN <<r>> \o OrderByTimeAsc(rows \ {r})

get_nearest_temp_record(db, coke_oven, time, before) ==
    LET rows == {r \in db.temperature_records :
                    /\ r.coke_oven = coke_oven
                    /\ IF before THEN TextLeq(r.time, time) ELSE TextLess(time, r.time)}
    IN  IF rows = {} THEN NoRecord
        ELSE IF before THEN TempRecord(MaxByText(rows)) ELSE TempRecord(MinByText(rows))

\* A range query that leaves out the condition on coke_oven.
get_temp_records_in_range_AnyOven(db, coke_oven, start, end) ==
    LET rows == {r \in db.temperature_records :
                    TextLess(start, r.time) /\ TextLess(r.time, end)}
        sorted == OrderByTimeAsc(rows)
    IN  [i \in 1..Len(sorted) |-> TempRecord(sorted[i])]

\* SELECT time, machine_side, coke_side FROM temperature_records
\*   WHERE coke_oven = ?1 AND time > ?2 AND time < ?3 ORDER BY time ASC
get_temp_records_in_range(db, coke_oven, start, end) ==
    LET rows == {r \in db.temperature_records :
                    r.coke_oven = coke_oven /\ TextLess(start, r.time) /\ TextLess(r.time, end)}
        sorted == OrderByTimeAsc(rows)
    IN  [i \in 1..Len(sorted) |-> TempRecord(sorted[i])]

(***************************************************************************)
(* system.rs: the integrator                                               *)
(***************************************************************************)
TimeTempPoint(t, m, c) == [time |-> t, machine |-> m, coke |-> c]

\* The fold over adjacent pairs, from pair i on; acc = <<machine, coke, duration>>.
RECURSIVE IntegralFrom(_, _, _)
IntegralFrom(points, i, acc) ==
    IF i > Len(points) - 1 THEN acc
    ELSE LET p1 == points[i]
             p2 == points[i + 1]
         IN  IF p1.time = p2.time THEN IntegralFrom(points, i + 1, acc)
             ELSE LET duration == Q(NumSeconds(p1.time, p2.time), 60)
                  IN  IntegralFrom(points, i + 1,
                         <<QAdd(acc[1], QDiv(QMul(QAdd(p1.machine, p2.machine), duration),
                                             QInt(2))),
                           QAdd(acc[2], QDiv(QMul(QAdd(p1.coke, p2.coke), duration),
                                             QInt(2))),
                           QAdd(acc[3], duration)>>)

calculate_integral(points) == IntegralFrom(points, 1, <<QInt(0), QInt(0), QInt(0)>>)

\* The estimate at a boundary of the window: the nearest records on both sides
\* of the boundary text, interpolated at its instant.
BoundaryTemp(db, coke_oven, time) ==
    interpolate_temp(get_nearest_temp_record(db, coke_oven, time, TRUE),
                     get_nearest_temp_record(db, coke_oven, time, FALSE),
                     parse_time(time))

\* [estimate at the start, the records in between, estimate at the end]
BuildPoints(start_dt, start_temp, middle_records, end_dt, end_temp) ==
    <<TimeTempPoint(start_dt, start_temp.machine, start_temp.coke)>>
    \o [i \in 1..Len(middle_records) |->
          TimeTempPoint(middle_records[i].time, middle_records[i].machine_side,
                        middle_records[i].coke_side)]
    \o <<TimeTempPoint(end_dt, end_temp.machine, end_temp.coke)>>

AverageOver(points, total) ==
    IF total[3] = QInt(0) THEN Pair(points[1].machine, points[1].coke)
    ELSE Pair(QDiv(total[1], total[3]), QDiv(total[2], total[3]))

AverageOfPoints(points) == AverageOver(points, calculate_integral(points))

AverageBetween(start_dt, start_temp, middle_records, end_dt, end_temp) ==
    IF ~start_temp.some \/ ~end_temp.some THEN NoPair
    ELSE AverageOfPoints(BuildPoints(start_dt, start_temp, middle_records, end_dt, end_temp))

\* Result<(f64, f64), rusqlite::Error>; storage_ok is FALSE when a query fails.
calculate_avg_temperature(db, coke_oven, start_time, end_time, storage_ok) ==
    IF ~storage_ok THEN NoPair
    ELSE AverageBetween(parse_time(start_time),
                        BoundaryTemp(db, coke_oven, start_time),
                        get_temp_records_in_range(db, coke_oven, start_time, end_time),
                        parse_time(end_time),
                        BoundaryTemp(db, coke_oven, end_time))

(***************************************************************************)
(* system.rs: the cycle matcher                                            *)
(***************************************************************************)
\* Rust's integer division and remainder (towards zero), for b > 0.
TruncDiv(a, b) == IF a >= 0 THEN a \div b ELSE -((-a) \div b)

TruncRem(a, b) == a - b * TruncDiv(a, b)

\* push_dt.signed_duration_since(load_dt).num_minutes(), as days * 1440 + rest
\* with both parts of one sign (the i64 count does not fit a model integer).
NumMinutes(load_dt, push_dt) ==
    LET dd == push_dt.day - load_dt.day
        ds == push_dt.sec - load_dt.sec
        D  == IF dd > 0 /\ ds < 0 THEN dd - 1 ELSE IF dd < 0 /\ ds > 0 THEN dd + 1 ELSE dd
        s  == IF dd > 0 /\ ds < 0 THEN ds + 86400
              ELSE IF dd < 0 /\ ds > 0 THEN ds - 86400 ELSE ds
    IN  [days |-> D, rest |-> TruncDiv(s, 60)]

\* 2^31 = HalfDays * 1440 + 128 and 2^32 = 2 * HalfDays * 1440 + 256.
HalfDays == 1491308

\* Whether days * 1440 + rest lies in the i32 range.
FitsI32(days, rest) ==
    /\ days <= HalfDays + (127 - rest) \div 1440
    /\ days >= -HalfDays - (128 + rest) \div 1440

\* How many times 2^32 is taken off the count to bring it into the i32 range.
WrapCount(m) ==
    CHOOSE j \in -2..2 : FitsI32(m.days - j * 2 * HalfDays, m.rest - j * 256)

\* days * 1440 + rest for a count in the i32 range, without leaving it on the way.
MinuteCount(days, rest) ==
    IF days > 0 THEN (days - 1) * 1440 + (1440 + rest)
    ELSE IF days < 0 THEN (days + 1) * 1440 + (rest - 1440)
    ELSE rest

\* `as i32`: the low 32 bits of the i64 minute count, as a signed number.
AsI32(m) ==
    MinuteCount(m.days - WrapCount(m) * 2 * HalfDays, m.rest - WrapCount(m) * 256)

\* The decimal digits of n >= 0.
RECURSIVE Decimal(_)
Decimal(n) == IF n < 10 THEN <<Digits[n + 1]>> ELSE Decimal(n \div 10) \o <<Digits[(n % 10) + 1]>>

\* format!("{:02}", n)
Format02(n) ==
    IF n < 0 THEN <<"-">> \o Decimal(-n)
    ELSE IF n < 10 THEN <<"0">> \o Decimal(n)
    ELSE Decimal(n)

minutes_to_hhmm(minutes) ==
    Format02(TruncDiv(minutes, 60)) \o <<":">> \o Format02(TruncRem(minutes, 60))

\* A query that leaves out the condition on operation_type.
LoadCandidates_AnyKind(db, coke_oven, chamber, push_time) ==
    {r \in db.operation_records :
        /\ r.coke_oven = coke_oven
        /\ r.chamber = chamber
        /\ TextLess(r.time, push_time)}

\* SELECT time FROM operation_records WHERE coke_oven = ?1 AND chamber = ?2
\*   AND operation_type = 'LOAD' AND time < ?3 ORDER BY time DESC LIMIT 1
LoadCandidates(db, coke_oven, chamber, push_time) ==
    {r \in db.operation_records :
        /\ r.coke_oven = coke_oven
        /\ r.chamber = chamber
        /\ r.operation_type = "LOAD"
        /\ TextLess(r.time, push_time)}

CycleRow(coke_oven, chamber, loading_time, push_time, duration_hhmm, avg) ==
    [coke_oven |-> coke_oven, chamber |-> chamber, loading_time |-> loading_time,
     push_time |-> push_time, duration_hhmm |-> duration_hhmm,
     avg_temp_machine |-> IF avg.some THEN BindReal(avg.machine) ELSE Null,
     avg_temp_coke |-> IF avg.some THEN BindReal(avg.coke) ELSE Null]

\* Storage faults: the statement of a call that fails with a rusqlite error.
Faults == {"none", "insert", "match", "avg", "cycle"}

\* The row derived for a PUSH matched with the LOAD at loading_time.
DeriveCycle(db, coke_oven, chamber, loading_time, push_time, fault) ==
    CycleRow(coke_oven, chamber, loading_time, push_time,
             minutes_to_hhmm(AsI32(NumMinutes(parse_time(loading_time),
                                              parse_time(push_time)))),
             calculate_avg_temperature(db, coke_oven, loading_time, push_time,
                                       fault # "avg"))

\* An insert that keeps one cycle per chamber, the newest (INSERT OR REPLACE).
InsertCycle_ReplaceChamber(db, row, fault) ==
    IF fault = "cycle" THEN [ok |-> FALSE, db |-> db]
    ELSE [ok |-> TRUE,
          db |-> [db EXCEPT !.coking_cycles =
                     {c \in @ : c.coke_oven # row.coke_oven \/ c.chamber # row.chamber}
                     \cup {row}]]

\* INSERT INTO coking_cycles
InsertCycle(db, row, fault) ==
    IF fault = "cycle" \/ CycleUniqueViolated(db, row)
    THEN [ok |-> FALSE, db |-> db]
    ELSE [ok |-> TRUE, db |-> [db EXCEPT !.coking_cycles = @ \cup {row}]]

MatchAndInsert(db, coke_oven, chamber, push_time, fault, found) ==
    IF found = {} THEN [ok |-> TRUE, db |-> db]
    ELSE InsertCycle(db,
                     DeriveCycle(db, coke_oven, chamber, MaxByText(found).time,
                                 push_time, fault),
                     fault)

\* Result<(), rusqlite::Error> and the tables afterwards.
try_calculate_coking_cycle(db, coke_oven, chamber, push_time, fault) ==
    IF fault = "match" THEN [ok |-> FALSE, db |-> db]
    ELSE MatchAndInsert(db, coke_oven, chamber, push_time, fault,
                        LoadCandidates(db, coke_oven, chamber, push_time))

(***************************************************************************)
(* system.rs: record_temperature, record_operation                         *)
(***************************************************************************)
\* Result<(), String>: err is "" for Ok, else the kind of the message.
CokeOvenSystem_record_temperature(db, ovens, coke_oven, time, machine_temp, coke_temp, fault) ==
    LET row == [coke_oven |-> coke_oven, time |-> time,
                machine_side |-> machine_temp, coke_side |-> coke_temp]
    IN  IF coke_oven \notin DOMAIN ovens THEN [err |-> "InvalidOven", db |-> db]
        ELSE IF ~parse_time(time).ok THEN [err |-> "InvalidTimeFormat", db |-> db]
        ELSE IF fault = "insert" THEN [err |-> "StorageFailure", db |-> db]
        ELSE IF TempNotNullViolated(row) THEN [err |-> "StorageFailure", db |-> db]
        ELSE IF TempUniqueViolated(db, row) THEN [err |-> "DuplicateRecord", db |-> db]
        ELSE [err |-> "", db |-> [db EXCEPT !.temperature_records = @ \cup {row}]]

OperationRow(coke_oven, chamber, op_type, time) ==
    [coke_oven |-> coke_oven, chamber |-> chamber, operation_type |-> op_type, time |-> time]

\* `?` on the result of try_calculate_coking_cycle.
Propagate(cycle) == [err |-> IF cycle.ok THEN "" ELSE "StorageFailure", db |-> cycle.db]

\* A record_operation that runs the matcher after an event of either kind.
AfterInsert_EveryKind(stored, coke_oven, chamber, op_type, time, fault) ==
    Propagate(try_calculate_coking_cycle(stored, coke_oven, chamber, time, fault))

\* After the event is stored: a PUSH runs the matcher on the stored tables.
AfterInsert(stored, coke_oven, chamber, op_type, time, fault) ==
    IF op_type = "PUSH"
    THEN Propagate(try_calculate_coking_cycle(stored, coke_oven, chamber, time, fault))
    ELSE [err |-> "", db |-> stored]

\* A record_operation that stores the event without parsing its timestamp.
CokeOvenSystem_record_operation_NoTimeCheck(db, ovens, coke_oven, chamber, op_type, time, fault) ==
    IF coke_oven \notin DOMAIN ovens THEN [err |-> "InvalidOven", db |-> db]
    ELSE IF ~is_valid_chamber(ovens, coke_oven, chamber)
    THEN [err |-> "InvalidChamber", db |-> db]
    ELSE IF op_type # "LOAD" /\ op_type # "PUSH"
    THEN [err |-> "InvalidOperationKind", db |-> db]
    ELSE IF fault = "insert" THEN [err |-> "StorageFailure", db |-> db]
    ELSE IF OpUniqueViolated(db, OperationRow(coke_oven, chamber, op_type, time))
    THEN [err |-> "DuplicateRecord", db |-> db]
    ELSE AfterInsert([db EXCEPT !.operation_records =
                            @ \cup {OperationRow(coke_oven, chamber, op_type, time)}],
                     coke_oven, chamber, op_type, time, fault)

CokeOvenSystem_record_operation(db, ovens, coke_oven, chamber, op_type, time, fault) ==
    IF coke_oven \notin DOMAIN ovens THEN [err |-> "InvalidOven", db |-> db]
    ELSE IF ~is_valid_chamber(ovens, coke_oven, chamber)
    THEN [err |-> "InvalidChamber", db |-> db]
    ELSE IF op_type # "LOAD" /\ op_type # "PUSH"
    THEN [err |-> "InvalidOperationKind", db |-> db]
    ELSE IF ~parse_time(time).ok THEN [err |-> "InvalidTimeFormat", db |-> db]
    ELSE IF fault = "insert" THEN [err |-> "StorageFailure", db |-> db]
    ELSE IF OpUniqueViolated(db, OperationRow(coke_oven, chamber, op_type, time))
    THEN [err |-> "DuplicateRecord", db |-> db]
    ELSE AfterInsert([db EXCEPT !.operation_records =
                            @ \cup {OperationRow(coke_oven, chamber, op_type, time)}],
                     coke_oven, chamber, op_type, time, fault)

(***************************************************************************)
(* ffi.rs: the process-wide handle and the entry points                    *)
(***************************************************************************)
VARIABLES
    cell,     \* SYSTEM: "unset" (OnceLock empty), "none" (Mutex holds None), "some"
    db,       \* the storage file: the three tables
    last,     \* the entry point that returned last, its return code and its error
    lock,     \* the Mutex of SYSTEM: the thread that holds its guard, 0 when free
    threads,  \* per calling thread: the step it is at, its call, the tables it found
    probe     \* the arguments and the result of a function called on its own

vars == <<cell, db, last, lock, threads, probe>>

\* The calling threads.
Threads == {1, 2}

\* A thread outside every entry point.
NoCall ==
    [pc |-> "idle", coke_oven |-> 0, chamber |-> "", op_type |-> "", time |-> "",
     machine_temp |-> <<0, 1>>, coke_temp |-> <<0, 1>>, found |-> NoTables]

\* No function is called on its own.
NoProbe == [fn |-> "none"]

\* The entry points below run as one step each: one caller, no thread in between.
Sequential == UNCHANGED <<lock, threads, probe>>

\* Bounds of the model: rows a table holds at most.
MaxOps == 3

MaxTemps == 2

\* Events stored at most where only operations are recorded.
MaxMatchOps == 4

Returned(op, rc, err) == [op |-> op, rc |-> rc, err |-> err]

\* A with_system_mut that checks only that the OnceLock is set, not that the
\* Mutex holds a system.
with_system_mut_OnceLockOnly(c) == IF c = "unset" THEN "NotInitialized" ELSE ""

\* with_system_mut: the error it returns before running the closure, or "".
with_system_mut(c) == IF c = "some" THEN "" ELSE "NotInitialized"

Init ==
    /\ cell = "unset"
    /\ db = NoTables
    /\ last = Returned("start", 0, "")
    /\ lock = 0
    /\ threads = [t \in Threads |-> NoCall]
    /\ probe = NoProbe

\* coke_system_init -> init_system; open_ok: Connection::open and the schema succeed.
coke_system_init(open_ok) ==
    IF open_ok
    THEN /\ db' = initialize_db(db)
         /\ cell' = "some"
         /\ last' = Returned("coke_system_init", 0, "")
         /\ Sequential
    ELSE /\ last' = Returned("coke_system_init", -2, "StorageFailure")
         /\ UNCHANGED <<cell, db>>
         /\ Sequential

\* The closure ran: its result is the call's, the rows it wrote are stored.
ReturnFrom(op, code, result, rows, bound) ==
    /\ Cardinality(rows) <= bound
    /\ db' = result.db
    /\ last' = Returned(op, IF result.err = "" THEN 0 ELSE code, result.err)
    /\ UNCHANGED cell
    /\ Sequential

\* with_system_mut returned before the closure ran.
ReturnEarly(op, locked) ==
    /\ last' = Returned(op, -1, locked)
    /\ UNCHANGED <<cell, db>>
    /\ Sequential

TemperatureResult(coke_oven, time, machine_temp, coke_temp, fault) ==
    CokeOvenSystem_record_temperature(db, initialize_ovens, coke_oven, time,
                                      machine_temp, coke_temp, fault)

OperationResult(coke_oven, chamber, op_type, time, fault) ==
    CokeOvenSystem_record_operation(db, initialize_ovens, coke_oven, chamber,
                                    op_type, time, fault)

record_temperature(coke_oven, time, machine_temp, coke_temp, fault) ==
    IF with_system_mut(cell) # ""
    THEN ReturnEarly("record_temperature", with_system_mut(cell))
    ELSE \E result \in {TemperatureResult(coke_oven, time, machine_temp, coke_temp, fault)} :
            ReturnFrom("record_temperature", -3, result,
                       result.db.temperature_records, MaxTemps)

\* record_operation, while the events stored stay within a bound.
RecordOperationWithin(coke_oven, chamber, op_type, time, fault, bound) ==
    IF with_system_mut(cell) # ""
    THEN ReturnEarly("record_operation", with_system_mut(cell))
    ELSE \E result \in {OperationResult(coke_oven, chamber, op_type, time, fault)} :
            ReturnFrom("record_operation", -5, result,
                       result.db.operation_records, bound)

record_operation(coke_oven, chamber, op_type, time, fault) ==
    RecordOperationWithin(coke_oven, chamber, op_type, time, fault, MaxOps)

coke_system_shutdown ==
    /\ cell' = IF cell = "unset" THEN "unset" ELSE "none"
    /\ last' = Returned("coke_system_shutdown", 0, "")
    /\ UNCHANGED db
    /\ Sequential

(***************************************************************************)
(* The callers                                                             *)
(***************************************************************************)
ValidTimeTexts(texts) == {t \in texts : parse_time(t).ok}

\* The readings submitted with each text: <<machine side, coke side>>.
ReadingAt(t) ==
    CASE t = "2025-06-18"          -> <<QInt(100), QInt(200)>>
      [] t = "2025-06-18 00:01:30" -> <<QInt(200), QInt(300)>>
      [] t = "2025-06-18 00:03"    -> <<QInt(400), QInt(500)>>
      [] t = "2025-06-18 00:03:00" -> <<QInt(300), QInt(400)>>
      [] OTHER                     -> <<QInt(100), QInt(200)>>

\* Arguments of record_temperature: the well-formed calls on oven 1, and calls
\* with one argument that validation rejects.
TemperatureCalls(texts) ==
    {<<1, t, ReadingAt(t)[1], ReadingAt(t)[2]>> : t \in ValidTimeTexts(texts)}
    \cup {<<4, "2025-06-18", QInt(100), QInt(200)>>}
    \cup {<<1, t, QInt(100), QInt(200)>> : t \in texts \ ValidTimeTexts(texts)}

\* Arguments of record_operation, likewise, on chamber "1#" of oven 1.
OperationCalls(texts) ==
    {<<1, "1#", k, t>> : k \in {"LOAD", "PUSH"}, t \in ValidTimeTexts(texts)}
    \cup {<<4, "1#", "LOAD", "2025-06-18">>, <<1, "999#", "PUSH", "2025-06-18">>,
          <<1, "1#", "INVALID", "2025-06-18">>}
    \cup {<<1, "1#", "PUSH", t>> : t \in texts \ ValidTimeTexts(texts)}

DayTemperatureCalls == TemperatureCalls(TimeTexts)

DayOperationCalls == OperationCalls(TimeTexts)

\* Reliable storage, timestamps of one day.
Next ==
    \/ coke_system_init(TRUE)
    \/ \E a \in DayTemperatureCalls : record_temperature(a[1], a[2], a[3], a[4], "none")
    \/ \E a \in DayOperationCalls : record_operation(a[1], a[2], a[3], a[4], "none")
    \/ coke_system_shutdown

Spec == Init /\ [][Next]_vars

\* Storage that can fail: every statement of a call may return a rusqlite error,
\* and the storage file may fail to open.
FaultTemperatureCalls == TemperatureCalls({"2025-06-18", "2025-06-18 00:03"})

FaultOperationCalls == OperationCalls({"2025-06-18", "2025-06-18 00:03"})

NextFault ==
    \/ \E open_ok \in BOOLEAN : coke_system_init(open_ok)
    \/ \E a \in FaultTemperatureCalls, f \in {"none", "insert"} :
          record_temperature(a[1], a[2], a[3], a[4], f)
    \/ \E a \in FaultOperationCalls, f \in Faults :
          record_operation(a[1], a[2], a[3], a[4], f)
    \/ coke_system_shutdown

SpecFault == Init /\ [][NextFault]_vars

\* Reliable storage, operation events with timestamps up to millennia apart.
WideOperationCalls == OperationCalls(WideTimeTexts)

NextWide ==
    \/ coke_system_init(TRUE)
    \/ \E a \in WideOperationCalls : record_operation(a[1], a[2], a[3], a[4], "none")
    \/ coke_system_shutdown

SpecWide == Init /\ [][NextWide]_vars

\* Reliable storage, readings that are not finite among the samples.
ReadingTemperatureCalls ==
    {<<1, "2025-06-18", Inf, QInt(200)>>, <<1, "2025-06-18 00:01:30", NaN, QInt(300)>>,
     <<1, "2025-06-18 00:03", QInt(400), QInt(500)>>}

ReadingOperationCalls == OperationCalls({"2025-06-18 00:01:30", "2025-06-18 00:03:00"})

NextReadings ==
    \/ coke_system_init(TRUE)
    \/ \E a \in ReadingTemperatureCalls : record_temperature(a[1], a[2], a[3], a[4], "none")
    \/ \E a \in ReadingOperationCalls : record_operation(a[1], a[2], a[3], a[4], "none")
    \/ coke_system_shutdown

SpecReadings == Init /\ [][NextReadings]_vars

\* Reliable storage, operation events only, one more of them.
NextMatch ==
    \/ coke_system_init(TRUE)
    \/ \E a \in DayOperationCalls :
          RecordOperationWithin(a[1], a[2], a[3], a[4], "none", MaxMatchOps)
    \/ coke_system_shutdown

SpecMatch == Init /\ [][NextMatch]_vars

\* Reliable storage, events on two chambers of oven 1 and on oven 2, samples of
\* ovens 1 and 2.
OtherOperationCalls ==
    {<<1, "1#", k, t>> : k \in {"LOAD", "PUSH"}, t \in {"2025-06-18", "2025-06-18 00:03"}}
    \cup {<<a[1], a[2], k, "2025-06-18 00:01:30">> :
             a \in {<<1, "2#">>, <<2, "1#">>}, k \in {"LOAD", "PUSH"}}

OtherTemperatureCalls ==
    {<<1, "2025-06-18", QInt(100), QInt(200)>>,
     <<1, "2025-06-18 00:03", QInt(400), QInt(500)>>,
     <<2, "2025-06-18 00:01:30", QInt(900), QInt(950)>>}

NextOthers ==
    \/ coke_system_init(TRUE)
    \/ \E a \in OtherTemperatureCalls : record_temperature(a[1], a[2], a[3], a[4], "none")
    \/ \E a \in OtherOperationCalls : record_operation(a[1], a[2], a[3], a[4], "none")
    \/ coke_system_shutdown

SpecOthers == Init /\ [][NextOthers]_vars

(***************************************************************************)
(* ffi.rs with several calling threads: the steps of each entry point      *)
(***************************************************************************)
\* system.rs record_operation up to its INSERT: the validation, then the event.
StoreOperation(d, ovens, coke_oven, chamber, op_type, time) ==
    IF coke_oven \notin DOMAIN ovens THEN [err |-> "InvalidOven", db |-> d]
    ELSE IF ~is_valid_chamber(ovens, coke_oven, chamber)
    THEN [err |-> "InvalidChamber", db |-> d]
    ELSE IF op_type # "LOAD" /\ op_type # "PUSH"
    THEN [err |-> "InvalidOperationKind", db |-> d]
    ELSE IF ~parse_time(time).ok THEN [err |-> "InvalidTimeFormat", db |-> d]
    ELSE IF OpUniqueViolated(d, OperationRow(coke_oven, chamber, op_type, time))
    THEN [err |-> "DuplicateRecord", db |-> d]
    ELSE [err |-> "",
          db |-> [d EXCEPT !.operation_records =
                      @ \cup {OperationRow(coke_oven, chamber, op_type, time)}]]

\* A Mutex::lock that returns at once, whoever holds the guard.
MutexFree_NoExclusion(l) == TRUE

\* Mutex::lock returns when no thread holds the guard.
MutexFree(l) == l = 0

EntryPoint(c) == IF c.op_type = "TEMP" THEN "record_temperature" ELSE "record_operation"

\* The thread leaves its entry point; the guard, if it holds one, is dropped.
Leave(t, op, rc, err) ==
    /\ threads' = [threads EXCEPT ![t] = NoCall]
    /\ last' = Returned(op, rc, err)

\* record_temperature, record_operation: the arguments are marshalled, then
\* with_system_mut reads SYSTEM and takes the lock.
with_system_mut_lock(t, c) ==
    /\ threads[t].pc = "idle"
    /\ IF c.op_type = "TEMP"
       THEN Cardinality(db.temperature_records) < MaxTemps
       ELSE Cardinality(db.operation_records) < MaxOps
    /\ IF cell = "unset"
       THEN /\ Leave(t, EntryPoint(c), -1, "NotInitialized")
            /\ UNCHANGED <<cell, db, lock, probe>>
       ELSE /\ MutexFree(lock)
            /\ lock' = t
            /\ threads' = [threads EXCEPT ![t] = [c EXCEPT !.pc = "locked", !.found = db]]
            /\ UNCHANGED <<cell, db, last, probe>>

\* with_system_mut under the lock, for record_temperature: the closure runs
\* on the system the Mutex holds, the guard is dropped, the code is returned.
record_temperature_locked(t) ==
    /\ threads[t].pc = "locked"
    /\ threads[t].op_type = "TEMP"
    /\ lock' = 0
    /\ IF cell # "some"
       THEN Leave(t, "record_temperature", -1, "NotInitialized") /\ UNCHANGED db
       ELSE \E result \in {CokeOvenSystem_record_temperature(
                               db, initialize_ovens, threads[t].coke_oven, threads[t].time,
                               threads[t].machine_temp, threads[t].coke_temp, "none")} :
               /\ db' = result.db
               /\ Leave(t, "record_temperature", IF result.err = "" THEN 0 ELSE -3, result.err)
    /\ UNCHANGED <<cell, probe>>

\* with_system_mut under the lock, for record_operation: the closure validates
\* and inserts the event; a PUSH goes on to the matcher, still under the lock.
record_operation_locked(t) ==
    /\ threads[t].pc = "locked"
    /\ threads[t].op_type # "TEMP"
    /\ IF cell # "some"
       THEN /\ Leave(t, "record_operation", -1, "NotInitialized")
            /\ lock' = 0
            /\ UNCHANGED db
       ELSE \E stored \in {StoreOperation(db, initialize_ovens, threads[t].coke_oven,
                                          threads[t].chamber, threads[t].op_type,
                                          threads[t].time)} :
               /\ db' = stored.db
               /\ IF stored.err = "" /\ threads[t].op_type = "PUSH"
                  THEN /\ threads' = [threads EXCEPT ![t].pc = "inserted"]
                       /\ UNCHANGED <<lock, last>>
                  ELSE /\ Leave(t, "record_operation", IF stored.err = "" THEN 0 ELSE -5,
                                stored.err)
                       /\ lock' = 0
    /\ UNCHANGED <<cell, probe>>

\* The matcher of a stored PUSH; then the guard is dropped and the code returned.
record_operation_matched(t) ==
    /\ threads[t].pc = "inserted"
    /\ \E result \in {Propagate(try_calculate_coking_cycle(
                                    db, threads[t].coke_oven, threads[t].chamber,
                                    threads[t].time, "none"))} :
          /\ db' = result.db
          /\ Leave(t, "record_operation", IF result.err = "" THEN 0 ELSE -5, result.err)
    /\ lock' = 0
    /\ UNCHANGED <<cell, probe>>

\* coke_system_shutdown: SYSTEM.get(), then mutex.lock().
coke_system_shutdown_lock(t) ==
    /\ threads[t].pc = "idle"
    /\ IF cell = "unset"
       THEN /\ Leave(t, "coke_system_shutdown", 0, "")
            /\ UNCHANGED <<cell, db, lock, probe>>
       ELSE /\ MutexFree(lock)
            /\ lock' = t
            /\ threads' = [threads EXCEPT ![t].pc = "shutdown"]
            /\ UNCHANGED <<cell, db, last, probe>>

\* coke_system_shutdown: *guard = None, and the guard is dropped.
coke_system_shutdown_locked(t) ==
    /\ threads[t].pc = "shutdown"
    /\ cell' = "none"
    /\ lock' = 0
    /\ Leave(t, "coke_system_shutdown", 0, "")
    /\ UNCHANGED <<db, probe>>

\* init_system: CokeOvenSystem::new opens the storage, applies the schema and
\* builds the ovens, before SYSTEM is touched.
init_system_new(t) ==
    /\ threads[t].pc = "idle"
    /\ db' = initialize_db(db)
    /\ threads' = [threads EXCEPT ![t].pc = "built"]
    /\ UNCHANGED <<cell, last, lock, probe>>

\* init_system: SYSTEM.get_or_init(|| Mutex::new(None)), then mutex.lock().
init_system_lock(t) ==
    /\ threads[t].pc = "built"
    /\ MutexFree(lock)
    /\ lock' = t
    /\ cell' = IF cell = "unset" THEN "none" ELSE cell
    /\ threads' = [threads EXCEPT ![t].pc = "init_locked"]
    /\ UNCHANGED <<db, last, probe>>

\* init_system: *guard = Some(system), and the guard is dropped.
init_system_locked(t) ==
    /\ threads[t].pc = "init_locked"
    /\ cell' = "some"
    /\ lock' = 0
    /\ Leave(t, "coke_system_init", 0, "")
    /\ UNCHANGED <<db, probe>>

\* The calls the threads make.
ThreadTexts == {"2025-06-18", "2025-06-18 00:03"}

ThreadCalls ==
    {[NoCall EXCEPT !.coke_oven = a[1], !.op_type = "TEMP", !.time = a[2],
                    !.machine_temp = a[3], !.coke_temp = a[4]] :
        a \in TemperatureCalls(ThreadTexts)}
    \cup {[NoCall EXCEPT !.coke_oven = a[1], !.chamber = a[2], !.op_type = a[3],
                         !.time = a[4]] :
            a \in OperationCalls(ThreadTexts)}

NextThreads ==
    \/ \E t \in Threads, c \in ThreadCalls : with_system_mut_lock(t, c)
    \/ \E t \in Threads : record_temperature_locked(t)
    \/ \E t \in Threads : record_operation_locked(t)
    \/ \E t \in Threads : record_operation_matched(t)
    \/ \E t \in Threads : coke_system_shutdown_lock(t)
    \/ \E t \in Threads : coke_system_shutdown_locked(t)
    \/ \E t \in Threads : init_system_new(t)
    \/ \E t \in Threads : init_system_lock(t)
    \/ \E t \in Threads : init_system_locked(t)

SpecThreads == Init /\ [][NextThreads]_vars

(***************************************************************************)
(* ffi.rs with a Mutex that can be poisoned: a panic while the guard is    *)
(* held (the eprintln! of the matcher fails to write to stderr) marks the  *)
(* Mutex, and every later lock() returns Err(PoisonError).  A panic that   *)
(* reaches the extern "C" boundary ends the process, or, with toolchains   *)
(* that let it unwind into the caller, ends the calling thread only.       *)
(***************************************************************************)
\* The value of lock when the Mutex is poisoned (no thread holds the guard).
Poisoned == -1

\* The process has not been ended by a panic.
Alive == last.err # "ProcessAborted"

\* The process ends inside the entry point: no code is returned to the caller.
Aborts(op) == last' = Returned(op, 0, "ProcessAborted")

\* with_system_mut with the state of the Mutex: get, then lock, then as_mut.
with_system_mut_guard(c, l) ==
    IF c = "unset" THEN "NotInitialized"
    ELSE IF l = Poisoned THEN "LockFailed"
    ELSE IF c = "none" THEN "NotInitialized"
    ELSE ""

\* init_system: CokeOvenSystem::new, then lock().unwrap().
poison_coke_system_init ==
    /\ Alive
    /\ IF lock = Poisoned
       THEN /\ db' = initialize_db(db)
            /\ Aborts("coke_system_init")
            /\ UNCHANGED <<cell, lock, threads, probe>>
       ELSE coke_system_init(TRUE)

poison_record_temperature(coke_oven, time, machine_temp, coke_temp) ==
    /\ Alive
    /\ IF with_system_mut_guard(cell, lock) = "LockFailed"
       THEN ReturnEarly("record_temperature", "LockFailed")
       ELSE record_temperature(coke_oven, time, machine_temp, coke_temp, "none")

poison_record_operation(coke_oven, chamber, op_type, time) ==
    /\ Alive
    /\ IF with_system_mut_guard(cell, lock) = "LockFailed"
       THEN ReturnEarly("record_operation", "LockFailed")
       ELSE record_operation(coke_oven, chamber, op_type, time, "none")

\* coke_system_shutdown: lock().unwrap().
poison_coke_system_shutdown ==
    /\ Alive
    /\ IF cell # "unset" /\ lock = Poisoned
       THEN /\ Aborts("coke_system_shutdown")
            /\ UNCHANGED <<cell, db, lock, threads, probe>>
       ELSE coke_system_shutdown

\* The PUSH is stored, a LOAD is found, the averages fail and the eprintln! that
\* reports it panics.
PanicsAtEprintln(stored, coke_oven, chamber, time) ==
    /\ stored.err = ""
    /\ LoadCandidates(stored.db, coke_oven, chamber, time) # {}
    /\ ~calculate_avg_temperature(stored.db, coke_oven,
                                  MaxByText(LoadCandidates(stored.db, coke_oven, chamber,
                                                           time)).time,
                                  time, TRUE).some

\* record_operation of a PUSH that panics under the guard: the event is stored,
\* the guard is dropped while unwinding, the Mutex is poisoned; no_unwind is the
\* build's treatment of a panic at the extern "C" boundary.
record_operation_panics(coke_oven, chamber, time, no_unwind) ==
    /\ Alive
    /\ with_system_mut_guard(cell, lock) = ""
    /\ \E stored \in {StoreOperation(db, initialize_ovens, coke_oven, chamber, "PUSH", time)} :
          /\ PanicsAtEprintln(stored, coke_oven, chamber, time)
          /\ Cardinality(stored.db.operation_records) <= MaxOps
          /\ db' = stored.db
    /\ lock' = Poisoned
    /\ last' = IF no_unwind THEN Returned("record_operation", 0, "ProcessAborted")
               ELSE Returned("record_operation", 0, "ThreadUnwound")
    /\ UNCHANGED <<cell, threads, probe>>

NextPoison ==
    \/ poison_coke_system_init
    \/ \E a \in FaultTemperatureCalls : poison_record_temperature(a[1], a[2], a[3], a[4])
    \/ \E a \in FaultOperationCalls : poison_record_operation(a[1], a[2], a[3], a[4])
    \/ poison_coke_system_shutdown
    \/ \E t \in ValidTimeTexts(TimeTexts), no_unwind \in BOOLEAN :
          record_operation_panics(1, "1#", t, no_unwind)

SpecPoison == Init /\ [][NextPoison]_vars

(***************************************************************************)
(* parse_time called on its own: texts written from calendar fields        *)
(***************************************************************************)
DigitChars == <<"0", "1", "2", "3", "4", "5", "6", "7", "8", "9">>

DigitChar(n) == DigitChars[n + 1]

\* A field written with two digits, with four digits, and with no padding.
Pad2(n) == <<DigitChar((n \div 10) % 10), DigitChar(n % 10)>>

Pad4(n) == Pad2(n \div 100) \o Pad2(n % 100)

NoPad(n) == IF n < 10 THEN <<DigitChar(n)>> ELSE Pad2(n)

DateText(c) == Pad4(c.Y) \o <<"-">> \o Pad2(c.m) \o <<"-">> \o Pad2(c.d)

MinutesText(c) == DateText(c) \o <<" ">> \o Pad2(c.H) \o <<":">> \o Pad2(c.M)

SecondsText(c) == MinutesText(c) \o <<":">> \o Pad2(c.S)

UnpaddedText(c) ==
    Pad4(c.Y) \o <<"-">> \o NoPad(c.m) \o <<"-">> \o NoPad(c.d) \o <<" ">> \o NoPad(c.H)
        \o <<":">> \o NoPad(c.M)

\* The shapes of the texts handed to parse_time: the three formats, the minutes
\* format with fields of one digit, and texts that no format matches wholly.
WellFormedShapes == {"seconds", "minutes", "date", "unpadded"}

MalformedShapes == {"t_separator", "trailing", "hour_only", "word"}

TextOf(shape, c) ==
    CASE shape = "seconds"     -> SecondsText(c)
      [] shape = "minutes"     -> MinutesText(c)
      [] shape = "date"        -> DateText(c)
      [] shape = "unpadded"    -> UnpaddedText(c)
      [] shape = "t_separator" -> DateText(c) \o <<"T">> \o Pad2(c.H) \o <<":">> \o Pad2(c.M)
      [] shape = "trailing"    -> SecondsText(c) \o <<"Z">>
      [] shape = "hour_only"   -> DateText(c) \o <<" ">> \o Pad2(c.H)
      [] shape = "word"        ->
           <<"i", "n", "v", "a", "l", "i", "d", "-", "t", "i", "m", "e">>

\* Calendar fields, some of them out of range (month 13, 29 and 31 February,
\* hour 24).
CalendarFields ==
    [Y : {2024, 2025}, m : {2, 12, 13}, d : {18, 29, 31}, H : {0, 8, 24}, M : {16}, S : {0, 30}]

ParseProbe(shape, c) ==
    [fn |-> "parse_time", shape |-> shape, fields |-> c, text |-> TextOf(shape, c),
     result |-> NoInstant, done |-> FALSE]

InitParse ==
    /\ cell = "unset"
    /\ db = NoTables
    /\ last = Returned("start", 0, "")
    /\ lock = 0
    /\ threads = [t \in Threads |-> NoCall]
    /\ \E shape \in WellFormedShapes \cup MalformedShapes, c \in CalendarFields :
          probe = ParseProbe(shape, c)

parse_time_call ==
    /\ probe.fn = "parse_time"
    /\ ~probe.done
    /\ probe' = [probe EXCEPT !.result = ParseTimeText(probe.text), !.done = TRUE]
    /\ UNCHANGED <<cell, db, last, lock, threads>>

NextParse == parse_time_call

SpecParse == InitParse /\ [][NextParse]_vars

(***************************************************************************)
(* interpolate_temp called on its own                                      *)
(***************************************************************************)
\* The instants of three texts of one day, and readings finite and infinite.
ProbeInstants == {parse_time(t) : t \in {"2025-06-18", "2025-06-18 00:01:30", "2025-06-18 00:03"}}

ProbeRecords ==
    [some : {TRUE}, time : ProbeInstants, machine_side : {QInt(100), QInt(200), Inf},
     coke_side : {QInt(200), QInt(300)}]

InterpolateProbe(prev, next, target) ==
    [fn |-> "interpolate_temp", prev |-> prev, next |-> next, target |-> target,
     result |-> NoPair, done |-> FALSE]

\* prev and next as the accessor hands them over: prev no later than next.
InitInterpolate ==
    /\ cell = "unset"
    /\ db = NoTables
    /\ last = Returned("start", 0, "")
    /\ lock = 0
    /\ threads = [t \in Threads |-> NoCall]
    /\ \E prev \in ProbeRecords \cup {NoRecord}, next \in ProbeRecords \cup {NoRecord},
          target \in ProbeInstants :
          /\ (prev.some /\ next.some) => ~InstantLess(next.time, prev.time)
          /\ probe = InterpolateProbe(prev, next, target)

interpolate_temp_call ==
    /\ probe.fn = "interpolate_temp"
    /\ ~probe.done
    /\ probe' = [probe EXCEPT !.result = interpolate_temp(probe.prev, probe.next, probe.target),
                              !.done = TRUE]
    /\ UNCHANGED <<cell, db, last, lock, threads>>

NextInterpolate == interpolate_temp_call

SpecInterpolate == InitInterpolate /\ [][NextInterpolate]_vars

(***************************************************************************)
(* The integrator called on its own, in f64 arithmetic with rounding       *)
(***************************************************************************)
\* calculate_integral: the fold over adjacent pairs, from pair i on;
\* acc = <<total_machine, total_coke, total_duration>>.
F64IntegralStep(acc, p1, p2, duration) ==
    <<F64Add(acc[1], F64Div(F64Mul(F64Add(p1.machine, p2.machine), duration), F64OfInt(2))),
      F64Add(acc[2], F64Div(F64Mul(F64Add(p1.coke, p2.coke), duration), F64OfInt(2))),
      F64Add(acc[3], duration)>>

RECURSIVE F64IntegralFrom(_, _, _)
F64IntegralFrom(points, i, acc) ==
    IF i > Len(points) - 1 THEN acc
    ELSE IF points[i].time = points[i + 1].time THEN F64IntegralFrom(points, i + 1, acc)
    ELSE F64IntegralFrom(points, i + 1,
            F64IntegralStep(acc, points[i], points[i + 1],
                F64Div(F64OfInt(NumSeconds(points[i].time, points[i + 1].time)),
                       F64OfInt(60))))

F64calculate_integral(points) == F64IntegralFrom(points, 1, <<F64Zero, F64Zero, F64Zero>>)

\* calculate_avg_temperature from the integral on.
F64AverageOver(points, total) ==
    IF total[3] = F64Zero THEN Pair(points[1].machine, points[1].coke)
    ELSE Pair(F64Div(total[1], total[3]), F64Div(total[2], total[3]))

F64AverageOfPoints(points) == F64AverageOver(points, F64calculate_integral(points))

\* A point sec seconds into 2025-06-18 with whole-number readings.
PointAt(sec, machine, coke) ==
    TimeTempPoint([ok |-> TRUE, day |-> DaysFromCivil(2025, 6, 18), sec |-> sec],
                  F64OfInt(machine), F64OfInt(coke))

\* The reading at sec on the straight line from (0, from) to (span, to).
OnTheLine(from, to, span, sec) == from + ((to - from) * sec) \div span

\* The sequences integrated: one point; two points of one instant; two points
\* span seconds apart; and, with them, the sequence that has one more point at
\* sec on the straight line between the two.
Lines ==
    {c \in [machine : {100, 200, 950}, rise : {0, 360, 720}, span : {60, 90, 3600},
            sec : {5, 20, 30}] : (c.rise * c.sec) % c.span = 0}

LineEnds(c) ==
    <<PointAt(0, c.machine, c.machine + 100),
      PointAt(c.span, c.machine + c.rise, c.machine + 100 + c.rise)>>

LineWithInterior(c) ==
    <<PointAt(0, c.machine, c.machine + 100),
      PointAt(c.sec, OnTheLine(c.machine, c.machine + c.rise, c.span, c.sec),
              OnTheLine(c.machine + 100, c.machine + 100 + c.rise, c.span, c.sec)),
      PointAt(c.span, c.machine + c.rise, c.machine + 100 + c.rise)>>

OneInstant(c) ==
    <<PointAt(c.sec, c.machine, c.machine + 100), PointAt(c.sec, c.machine, c.machine + 100)>>

IntegralProbe(shape, c, points, more_points) ==
    [fn |-> "calculate_integral", shape |-> shape, line |-> c, points |-> points,
     more_points |-> more_points, average |-> NoPair, more_average |-> NoPair,
     done |-> FALSE]

InitIntegral ==
    /\ cell = "unset"
    /\ db = NoTables
    /\ last = Returned("start", 0, "")
    /\ lock = 0
    /\ threads = [t \in Threads |-> NoCall]
    /\ \E c \in Lines :
          \/ probe = IntegralProbe("line", c, LineEnds(c), LineWithInterior(c))
          \/ probe = IntegralProbe("one_instant", c, <<PointAt(c.sec, c.machine, c.machine + 100)>>,
                                   OneInstant(c))

\* The average over the sequence, and over the sequence with one more point.
calculate_integral_call ==
    /\ probe.fn = "calculate_integral"
    /\ ~probe.done
    /\ probe' = [probe EXCEPT !.average = F64AverageOfPoints(probe.points),
                              !.more_average = F64AverageOfPoints(probe.more_points),
                              !.done = TRUE]
    /\ UNCHANGED <<cell, db, last, lock, threads>>

NextIntegral == calculate_integral_call

SpecIntegral == InitIntegral /\ [][NextIntegral]_vars

(***************************************************************************)
(* Properties: the cycle matcher                                           *)
(***************************************************************************)
\* The stored LOAD events of a chamber whose instant is strictly before that of t.
EarlierLoads(d, coke_oven, chamber, t) ==
    {r \in d.operation_records :
        /\ r.coke_oven = coke_oven
        /\ r.chamber = chamber
        /\ r.operation_type = "LOAD"
        /\ InstantLess(parse_time(r.time), parse_time(t))}

\* A call of record_operation that passes validation.
ValidOperation(a) ==
    /\ a[1] \in DOMAIN initialize_ovens
    /\ is_valid_chamber(initialize_ovens, a[1], a[2])
    /\ a[3] \in {"LOAD", "PUSH"}
    /\ parse_time(a[4]).ok

\* The transition is the call a of record_operation storing a new PUSH event.
StoresPush(a) ==
    /\ a[3] = "PUSH"
    /\ ValidOperation(a)
    /\ cell = "some"
    /\ ~OpUniqueViolated(db, OperationRow(a[1], a[2], a[3], a[4]))
    /\ record_operation(a[1], a[2], a[3], a[4], "none")

\* The cycle rows the transition adds.
AddedCycles == db'.coking_cycles \ db.coking_cycles

\* C1: a successful PUSH on a chamber that has a LOAD with an earlier instant
\* adds exactly one cycle row, for that chamber and that PUSH, whose loading
\* time is the greatest LOAD instant strictly before the PUSH instant.
C1_MatchesLatestEarlierLoad ==
    [][\A a \in DayOperationCalls :
          (StoresPush(a) /\ last'.rc = 0 /\ EarlierLoads(db, a[1], a[2], a[4]) # {})
          => /\ Cardinality(AddedCycles) = 1
             /\ \A cy \in AddedCycles :
                   /\ cy.coke_oven = a[1] /\ cy.chamber = a[2] /\ cy.push_time = a[4]
                   /\ \E l \in EarlierLoads(db, a[1], a[2], a[4]) :
                         /\ parse_time(l.time) = parse_time(cy.loading_time)
                         /\ \A m \in EarlierLoads(db, a[1], a[2], a[4]) :
                               ~InstantLess(parse_time(l.time), parse_time(m.time))]_vars

\* C2: a valid PUSH on a chamber with no LOAD of an earlier instant succeeds,
\* stores the PUSH event and adds no cycle row.
C2_PushWithoutEarlierLoadAddsNoCycle ==
    [][\A a \in DayOperationCalls :
          (StoresPush(a) /\ EarlierLoads(db, a[1], a[2], a[4]) = {})
          => /\ last'.rc = 0
             /\ OperationRow(a[1], a[2], a[3], a[4]) \in db'.operation_records
             /\ db'.coking_cycles = db.coking_cycles]_vars

\* C3: in every stored cycle the loading instant is strictly before the push
\* instant.
C3_LoadingBeforePush ==
    \A cy \in db.coking_cycles :
        InstantLess(parse_time(cy.loading_time), parse_time(cy.push_time))

\* The text "HH:MM" of a span of days and minutes of one sign, the hours
\* unbounded: floor(m / 60) and m mod 60 of m = days * 1440 + rest.
HoursAndMinutes(days, rest) ==
    Format02(days * 24 + rest \div 60) \o <<":">> \o Format02(rest % 60)

\* C4: the duration text of a stored cycle is the whole minutes between its
\* two instants, rendered as hours and minutes of two digits at least, however
\* many hours that is.
C4_DurationIsHoursAndMinutes ==
    \A cy \in db.coking_cycles :
        /\ NumMinutes(parse_time(cy.loading_time), parse_time(cy.push_time)).days >= 0
        /\ NumMinutes(parse_time(cy.loading_time), parse_time(cy.push_time)).rest >= 0
        /\ cy.duration_hhmm =
              HoursAndMinutes(
                  NumMinutes(parse_time(cy.loading_time), parse_time(cy.push_time)).days,
                  NumMinutes(parse_time(cy.loading_time), parse_time(cy.push_time)).rest)

\* A cycle of 1709 minutes is stored as "28:29".
C4_Renders2829 ==
    \E cy \in db.coking_cycles :
        /\ cy.loading_time = "2025-06-18 08:16"
        /\ cy.push_time = "2025-06-19 12:45"
        /\ cy.duration_hhmm = <<"2", "8", ":", "2", "9">>

\* The stored LOAD events of a chamber with an instant from t1 up to, not
\* including, t2: those a PUSH at t2 can match and a PUSH at t1 cannot.
LoadsFromUpTo(d, coke_oven, chamber, t1, t2) ==
    {r \in EarlierLoads(d, coke_oven, chamber, t2) :
        ~InstantLess(parse_time(r.time), parse_time(t1))}

\* The LOAD of a stored cycle is still the latest stored LOAD before its PUSH.
LoadStillLatest(d, cy) ==
    \A r \in EarlierLoads(d, cy.coke_oven, cy.chamber, cy.push_time) :
        ~InstantLess(parse_time(cy.loading_time), parse_time(r.time))

\* C12: LOAD events are not consumed. When a PUSH at T2 is recorded for a
\* chamber that has a cycle of an earlier PUSH at T1, still matched to the
\* latest LOAD before T1, and no LOAD lies between T1 and T2, a second cycle
\* is created and carries the load instant of the first.
C12_SecondPushReusesTheLoad ==
    [][\A a \in DayOperationCalls :
          \A cy \in db.coking_cycles :
             (/\ a[3] = "PUSH"
              /\ ValidOperation(a)
              /\ cell = "some"
              /\ ~OpUniqueViolated(db, OperationRow(a[1], a[2], a[3], a[4]))
              /\ RecordOperationWithin(a[1], a[2], a[3], a[4], "none", MaxMatchOps)
              /\ cy.coke_oven = a[1]
              /\ cy.chamber = a[2]
              /\ InstantLess(parse_time(cy.loading_time), parse_time(cy.push_time))
              /\ InstantLess(parse_time(cy.push_time), parse_time(a[4]))
              /\ LoadStillLatest(db, cy)
              /\ LoadsFromUpTo(db, a[1], a[2], cy.push_time, a[4]) = {})
             => \E cy2 \in AddedCycles :
                   /\ cy2.push_time = a[4]
                   /\ parse_time(cy2.loading_time) = parse_time(cy.loading_time)]_vars

\* Two cycles of one chamber carry the same LOAD.
C12_TwoCyclesOneLoad ==
    \E cy, cy2 \in db.coking_cycles :
        /\ cy.chamber = cy2.chamber
        /\ cy.coke_oven = cy2.coke_oven
        /\ cy.loading_time = cy2.loading_time
        /\ InstantLess(parse_time(cy.push_time), parse_time(cy2.push_time))

(***************************************************************************)
(* Properties: the time parser                                             *)
(***************************************************************************)
\* The fields a text of the shape spells out are a date and a time of day.
DenotesAnInstant(shape, c) ==
    /\ shape \in WellFormedShapes
    /\ c.m \in 1..12
    /\ c.d \in 1..DaysInMonth(c.Y, c.m)
    /\ shape # "date" => (c.H \in 0..23 /\ c.M \in 0..59)
    /\ shape = "seconds" => c.S \in 0..59

\* The instant spelled out, the fields the shape omits being zero.
DenotedInstant(shape, c) ==
    [ok  |-> TRUE,
     day |-> DaysFromCivil(c.Y, c.m, c.d),
     sec |-> CASE shape = "seconds" -> c.H * 3600 + c.M * 60 + c.S
               [] shape = "date"    -> 0
               [] OTHER             -> c.H * 3600 + c.M * 60]

\* C13: parse_time returns the instant the text denotes under the first of the
\* three formats (seconds, minutes, date) that matches the whole text, fields the
\* format omits being zero, and fails on every text that matches none of them;
\* the result is a function of the text alone.
C13_ParseTimeReadsTheThreeFormats ==
    (probe.fn = "parse_time" /\ probe.done) =>
        probe.result = IF DenotesAnInstant(probe.shape, probe.fields)
                       THEN DenotedInstant(probe.shape, probe.fields)
                       ELSE NoInstant

\* A date alone has been parsed to midnight of that date.
C13_DateAloneParsedToMidnight ==
    /\ probe.fn = "parse_time" /\ probe.done
    /\ probe.shape = "date"
    /\ probe.fields.H # 0
    /\ probe.result.ok /\ probe.result.sec = 0

(***************************************************************************)
(* Properties: validation and the temperature store                        *)
(***************************************************************************)
\* A call of record_temperature that passes validation.
ValidTemperature(a) == a[1] \in DOMAIN initialize_ovens /\ parse_time(a[2]).ok

\* C5: a record_operation call with an unknown oven, a chamber that is not of
\* the oven, a kind other than LOAD and PUSH or an unparseable timestamp, and a
\* record_temperature call with an unknown oven or an unparseable timestamp,
\* returns an error and leaves the three tables unchanged.
C5_RejectedCallsStoreNothing ==
    [][/\ \A a \in DayOperationCalls :
             (~ValidOperation(a) /\ record_operation(a[1], a[2], a[3], a[4], "none"))
             => (last'.rc # 0 /\ last'.err # "" /\ db' = db)
       /\ \A a \in DayTemperatureCalls :
             (~ValidTemperature(a) /\ record_temperature(a[1], a[2], a[3], a[4], "none"))
             => (last'.rc # 0 /\ last'.err # "" /\ db' = db)]_vars

\* Every kind of rejection has happened on tables that hold rows.
C5_RejectedOnStoredRows ==
    /\ last.err \in {"InvalidOven", "InvalidChamber", "InvalidOperationKind",
                     "InvalidTimeFormat"}
    /\ db.operation_records # {}
    /\ db.temperature_records # {}
    /\ db.coking_cycles # {}

\* C6: no two stored temperature samples of one oven have the same instant.
C6_OneSamplePerOvenInstant ==
    \A r1, r2 \in db.temperature_records :
        (r1.coke_oven = r2.coke_oven /\ parse_time(r1.time) = parse_time(r2.time))
        => r1 = r2

\* C7: the two averages of a stored cycle are both present or both absent,
\* and absent exactly when the oven had no temperature sample when the PUSH
\* was recorded; an absent average is NULL, not zero.
C7_AveragesAbsentIffNoSamples ==
    [][\A cy \in AddedCycles :
          /\ cy.avg_temp_machine.null = cy.avg_temp_coke.null
          /\ cy.avg_temp_machine.null
                <=> ~\E r \in db.temperature_records : r.coke_oven = cy.coke_oven
          /\ cy.avg_temp_machine.null => cy.avg_temp_machine = Null
          /\ cy.avg_temp_coke.null => cy.avg_temp_coke = Null]_vars

(***************************************************************************)
(* Properties: the temperature accessor                                    *)
(***************************************************************************)
\* The stored samples of the oven at or before / strictly after the instant of t.
SamplesUpTo(d, coke_oven, t) ==
    {r \in d.temperature_records :
        r.coke_oven = coke_oven /\ ~InstantLess(parse_time(t), parse_time(r.time))}

SamplesAfter(d, coke_oven, t) ==
    {r \in d.temperature_records :
        r.coke_oven = coke_oven /\ InstantLess(parse_time(t), parse_time(r.time))}

\* result is absence when there is no candidate, and else a candidate that no
\* other candidate lies beyond (later for before, earlier for after).
NearestAmong(result, candidates, before) ==
    IF candidates = {} THEN ~result.some
    ELSE /\ result.some
         /\ \E r \in candidates :
               /\ result.time = parse_time(r.time)
               /\ result.machine_side = r.machine_side
               /\ result.coke_side = r.coke_side
         /\ \A o \in candidates :
               IF before THEN ~InstantLess(result.time, parse_time(o.time))
               ELSE ~InstantLess(parse_time(o.time), result.time)

\* C14: for every stored sample set and target instant, nearest-before returns
\* the oven's sample with the greatest instant at or before the target (a sample
\* at the target instant included), nearest-after the sample with the smallest
\* instant strictly after it, and each returns absence exactly when there is none.
C14_NearestByInstant ==
    \A t \in ValidTimeTexts(TimeTexts) :
        /\ NearestAmong(get_nearest_temp_record(db, 1, t, TRUE), SamplesUpTo(db, 1, t), TRUE)
        /\ NearestAmong(get_nearest_temp_record(db, 1, t, FALSE), SamplesAfter(db, 1, t),
                        FALSE)

(***************************************************************************)
(* Properties: the interpolator                                            *)
(***************************************************************************)
ReadingsOf(rec) == Pair(rec.machine_side, rec.coke_side)

\* C15: interpolate_temp returns a supplied sample's readings unchanged when the
\* target instant is that sample's instant (as prior or as next), the single
\* supplied sample's readings when one side is absent, the prior's readings when
\* both sides have one instant, and absence only when both sides are absent.
C15_InterpolateKeepsSuppliedReadings ==
    (probe.fn = "interpolate_temp" /\ probe.done) =>
        /\ (probe.prev.some /\ ~probe.next.some) => probe.result = ReadingsOf(probe.prev)
        /\ (~probe.prev.some /\ probe.next.some) => probe.result = ReadingsOf(probe.next)
        /\ (probe.prev.some /\ probe.next.some /\ probe.prev.time = probe.next.time)
              => probe.result = ReadingsOf(probe.prev)
        /\ (probe.prev.some /\ probe.next.some /\ probe.prev.time # probe.next.time
                /\ probe.target = probe.prev.time)
              => probe.result = ReadingsOf(probe.prev)
        /\ (probe.prev.some /\ probe.next.some /\ probe.prev.time # probe.next.time
                /\ probe.target = probe.next.time)
              => probe.result = ReadingsOf(probe.next)
        /\ ~probe.result.some <=> (~probe.prev.some /\ ~probe.next.some)

\* Between two finite samples, the target at the next sample's instant has
\* returned the next sample's readings.
C15_ExactInstantOfFiniteNext ==
    /\ probe.fn = "interpolate_temp" /\ probe.done
    /\ probe.prev.some /\ probe.next.some
    /\ probe.prev.time # probe.next.time /\ probe.target = probe.next.time
    /\ IsFinite(probe.prev.machine_side) /\ IsFinite(probe.next.machine_side)
    /\ probe.prev.machine_side # probe.next.machine_side
    /\ probe.result = ReadingsOf(probe.next)

(***************************************************************************)
(* Properties: the integrator                                              *)
(***************************************************************************)
\* Half the sum of the readings at the two ends of the line: the area of the one
\* trapezoid divided by the span.
MeanOfEnds(c) ==
    Pair(F64Div(F64OfInt(2 * c.machine + c.rise), F64OfInt(2)),
         F64Div(F64OfInt(2 * c.machine + 200 + c.rise), F64OfInt(2)))

\* C16: the time-weighted average over an ascending point sequence is the sum of
\* the trapezoid areas of adjacent pairs divided by the total span; one more
\* interior point exactly on the straight line between its neighbours leaves the
\* result as it is; and over one point, or points of one instant, the result is
\* that point's readings.
C16_AverageOfTrapezoids ==
    (probe.fn = "calculate_integral" /\ probe.done) =>
        /\ probe.shape = "line" =>
              /\ probe.average = MeanOfEnds(probe.line)
              /\ probe.more_average = probe.average
        /\ probe.shape = "one_instant" =>
              /\ probe.average = Pair(probe.points[1].machine, probe.points[1].coke)
              /\ probe.more_average = probe.average

\* A point in the middle of a rising line has left the average as it was.
C16_MidpointLeavesTheAverage ==
    /\ probe.fn = "calculate_integral" /\ probe.done
    /\ probe.shape = "line" /\ probe.line.rise # 0
    /\ probe.line.sec * 2 = probe.line.span
    /\ probe.more_average = probe.average
    /\ probe.average = MeanOfEnds(probe.line)

(***************************************************************************)
(* Properties: the operation store                                         *)
(***************************************************************************)
\* C17: no two stored operation events, of whichever kinds, have the same oven,
\* chamber and instant: a record_operation at the oven, chamber and instant of a
\* stored event is rejected as a duplicate and stores nothing.
C17_OneEventPerChamberInstant ==
    \A r1, r2 \in db.operation_records :
        (/\ r1.coke_oven = r2.coke_oven
         /\ r1.chamber = r2.chamber
         /\ parse_time(r1.time) = parse_time(r2.time))
        => r1 = r2

\* An event with the timestamp text of a stored event has been rejected.
C17_SameTextRejected ==
    /\ last.op = "record_operation"
    /\ last.err = "DuplicateRecord"
    /\ db.operation_records # {}

(***************************************************************************)
(* Properties: the tables only grow                                        *)
(***************************************************************************)
\* C18: the three tables are append-only: no call removes or changes a stored
\* row; a cycle row keeps its load instant, duration and averages whatever
\* samples or LOAD events are recorded afterwards.
C18_TablesAreAppendOnly ==
    [][/\ db.temperature_records \subseteq db'.temperature_records
       /\ db.operation_records \subseteq db'.operation_records
       /\ db.coking_cycles \subseteq db'.coking_cycles]_vars

\* A cycle stored without averages, and now a sample inside its window and a
\* LOAD of its chamber closer to its push than the load it was matched with.
C18_CycleKeptAfterLaterRecords ==
    \E cy \in db.coking_cycles :
        /\ cy.avg_temp_machine = Null
        /\ \E r \in db.temperature_records :
              /\ r.coke_oven = cy.coke_oven
              /\ TextLess(cy.loading_time, r.time) /\ TextLess(r.time, cy.push_time)
        /\ \E o \in db.operation_records :
              /\ o.operation_type = "LOAD"
              /\ o.coke_oven = cy.coke_oven /\ o.chamber = cy.chamber
              /\ TextLess(cy.loading_time, o.time) /\ TextLess(o.time, cy.push_time)

(***************************************************************************)
(* Properties: the range query                                             *)
(***************************************************************************)
\* The stored samples of the oven with an instant strictly between the two.
SamplesBetween(d, coke_oven, start, end) ==
    {r \in d.temperature_records :
        /\ r.coke_oven = coke_oven
        /\ InstantLess(parse_time(start), parse_time(r.time))
        /\ InstantLess(parse_time(r.time), parse_time(end))}

\* records holds exactly the samples of the set, in ascending order of instant.
ExactlyAscending(records, samples) ==
    /\ Len(records) = Cardinality(samples)
    /\ \A r \in samples : \E i \in 1..Len(records) :
          /\ records[i].time = parse_time(r.time)
          /\ records[i].machine_side = r.machine_side
          /\ records[i].coke_side = r.coke_side
    /\ \A i \in 1..Len(records) : \E r \in samples : records[i].time = parse_time(r.time)
    /\ \A i, j \in 1..Len(records) :
          i < j => ~InstantLess(records[j].time, records[i].time)

\* The windows of the cycles the matcher may derive: a load text before a push text.
Windows == {w \in ValidTimeTexts(TimeTexts) \X ValidTimeTexts(TimeTexts) : TextLess(w[1], w[2])}

\* C19: the range query returns exactly the oven's samples with an instant
\* strictly between start and end, in ascending order of instant, so that no
\* interior point of a cycle's point sequence is at the load or the push instant.
C19_RangeStrictlyBetween ==
    \A w \in Windows :
        ExactlyAscending(get_temp_records_in_range(db, 1, w[1], w[2]),
                         SamplesBetween(db, 1, w[1], w[2]))

\* A window with a sample strictly inside it, returned by the range query.
C19_InteriorSampleReturned ==
    \E w \in Windows :
        /\ SamplesBetween(db, 1, w[1], w[2]) # {}
        /\ ExactlyAscending(get_temp_records_in_range(db, 1, w[1], w[2]),
                            SamplesBetween(db, 1, w[1], w[2]))

(***************************************************************************)
(* Properties: failures of the derivation step                             *)
(***************************************************************************)
\* C8: for a PUSH that passes validation and is not a duplicate, whatever the
\* derivation step does (a cycle with averages, a cycle without, a failure),
\* the call returns success and the PUSH event is stored; no call returns an
\* error and leaves its PUSH event stored; a matching LOAD always yields a
\* cycle row with the duration.
C8_DerivationNeverFailsThePush ==
    [][\A a \in FaultOperationCalls, f \in Faults \ {"insert"} :
          (/\ a[3] = "PUSH"
           /\ ValidOperation(a)
           /\ cell = "some"
           /\ ~OpUniqueViolated(db, OperationRow(a[1], a[2], a[3], a[4]))
           /\ record_operation(a[1], a[2], a[3], a[4], f))
          => /\ last'.rc = 0
             /\ OperationRow(a[1], a[2], a[3], a[4]) \in db'.operation_records
             /\ EarlierLoads(db, a[1], a[2], a[4]) # {}
                   => \E cy \in AddedCycles :
                         /\ cy.push_time = a[4]
                         /\ Len(cy.duration_hhmm) >= 5]_vars

(***************************************************************************)
(* Properties: the handle                                                  *)
(***************************************************************************)
\* C9: while the handle is not initialized (before the first successful
\* initialize, and after shutdown), every record_temperature and
\* record_operation call fails with the not-initialized error and changes no
\* stored state; shutdown leaves the handle uninitialized, and only a
\* successful initialize makes it usable again.
C9_NotInitializedCallsFail ==
    [][/\ (cell # "some" /\ last'.op \in {"record_temperature", "record_operation"})
             => (last'.rc = -1 /\ last'.err = "NotInitialized" /\ db' = db /\ cell' = cell)
       /\ last'.op = "coke_system_shutdown" => cell' # "some"
       /\ (cell # "some" /\ cell' = "some")
             => (last'.op = "coke_system_init" /\ last'.rc = 0)
       /\ (last'.op \in {"record_temperature", "record_operation"} /\ last'.rc = 0)
             => cell = "some"]_vars

\* A call has failed as not initialized after a shutdown, on stored rows.
C9_RejectedAfterShutdown ==
    /\ cell = "none"
    /\ last.op \in {"record_temperature", "record_operation"}
    /\ last.err = "NotInitialized"
    /\ db.operation_records # {}
    /\ db.temperature_records # {}

\* C10: initialize called again on the same storage succeeds, keeps every row
\* of the three tables, and leaves the handle usable as one call does: on an
\* initialized handle it changes neither the storage nor the handle.
C10_InitializeIsIdempotent ==
    [][last'.op = "coke_system_init"
          => /\ last'.rc = 0
             /\ cell' = "some"
             /\ db'.created
             /\ db'.temperature_records = db.temperature_records
             /\ db'.operation_records = db.operation_records
             /\ db'.coking_cycles = db.coking_cycles
             /\ cell = "some" => (db' = db /\ cell' = cell)
             /\ initialize_db(db') = db']_vars

\* Initialize has run again on storage that holds rows in its three tables.
C10_InitializedAgainOnStoredRows ==
    /\ last.op = "coke_system_init"
    /\ db.temperature_records # {}
    /\ db.operation_records # {}
    /\ db.coking_cycles # {}

(***************************************************************************)
(* Properties: a poisoned lock                                             *)
(***************************************************************************)
\* The codes the entry points return for the other failures: not initialized
\* (-1), an argument that is no string (-1 .. -4), a rejected record (-3, -5), a
\* storage file that does not open (-2).
OtherErrorCodes == {-1, -2, -3, -4, -5}

\* C21: when the lock is poisoned, every entry point returns to its caller with
\* an error that is neither success nor the code of not-initialized or of any
\* other failure, changes no state, and does not end the process.
C21_PoisonedLockIsADistinctError ==
    [][(Alive /\ lock = Poisoned /\ last' # last) =>
           /\ last'.err # "ProcessAborted"
           /\ last'.rc # 0
           /\ last'.rc \notin OtherErrorCodes
           /\ db' = db /\ cell' = cell]_vars

\* A record call has found the lock poisoned and returned the lock failure.
C21_LockFailureReturned ==
    /\ lock = Poisoned
    /\ last.err = "LockFailed"
    /\ last.rc = -1

(***************************************************************************)
(* Properties: cycles and the events they come from                        *)
(***************************************************************************)
\* The stored events of a kind.
EventsOfKind(d, kind) == {r \in d.operation_records : r.operation_type = kind}

\* An event of the kind is stored for the oven and chamber with that time.
EventStored(d, kind, coke_oven, chamber, time) ==
    \E r \in EventsOfKind(d, kind) :
        r.coke_oven = coke_oven /\ r.chamber = chamber /\ r.time = time

\* C22: every cycle row refers to stored events, a PUSH with its oven, chamber
\* and push time and a LOAD with its oven, chamber and load time; there is at
\* most one cycle per oven, chamber and push time, and no more cycles than
\* stored PUSH events.
C22_CyclesReferToStoredEvents ==
    /\ \A cy \in db.coking_cycles :
          /\ EventStored(db, "PUSH", cy.coke_oven, cy.chamber, cy.push_time)
          /\ EventStored(db, "LOAD", cy.coke_oven, cy.chamber, cy.loading_time)
    /\ \A c1, c2 \in db.coking_cycles :
          (/\ c1.coke_oven = c2.coke_oven
           /\ c1.chamber = c2.chamber
           /\ c1.push_time = c2.push_time) => c1 = c2
    /\ Cardinality(db.coking_cycles) <= Cardinality(EventsOfKind(db, "PUSH"))

\* Three PUSH events are stored, one of them from before any LOAD, and two cycles.
C22_FewerCyclesThanPushes ==
    /\ Cardinality(EventsOfKind(db, "PUSH")) = 3
    /\ Cardinality(db.coking_cycles) = 2

(***************************************************************************)
(* Properties: when cycles are added                                       *)
(***************************************************************************)
\* The PUSH events the transition stores.
AddedPushes == EventsOfKind(db', "PUSH") \ db.operation_records

\* C23: a cycle row is added only by a record_operation call of kind PUSH, at
\* most one per call, and for the PUSH event that call stores: no
\* record_temperature and no LOAD call adds a cycle, so a PUSH recorded before
\* its LOAD never gets a cycle, whatever instant the LOAD carries.
C23_CyclesOnlyFromThePushRecorded ==
    [][AddedCycles # {} =>
          /\ last'.op = "record_operation"
          /\ Cardinality(AddedCycles) = 1
          /\ \A cy \in AddedCycles : \E p \in AddedPushes :
                /\ p.coke_oven = cy.coke_oven
                /\ p.chamber = cy.chamber
                /\ p.time = cy.push_time]_vars

\* A PUSH is stored without a cycle although a LOAD of its chamber with an
\* earlier instant is stored: the LOAD was recorded after the PUSH.
C23_LateLoadLeavesPushWithoutCycle ==
    \E p \in EventsOfKind(db, "PUSH"), l \in EventsOfKind(db, "LOAD") :
        /\ l.coke_oven = p.coke_oven /\ l.chamber = p.chamber
        /\ TextLess(l.time, p.time)
        /\ InstantLess(parse_time(l.time), parse_time(p.time))
        /\ ~\E cy \in db.coking_cycles :
              /\ cy.coke_oven = p.coke_oven
              /\ cy.chamber = p.chamber
              /\ cy.push_time = p.time
        /\ db.temperature_records # {}

(***************************************************************************)
(* Properties: other chambers and ovens                                    *)
(***************************************************************************)
\* The store without the events of other chambers and ovens and without the
\* samples of other ovens.
OnlyOf(d, coke_oven, chamber) ==
    [d EXCEPT !.operation_records =
                 {r \in @ : r.coke_oven = coke_oven /\ r.chamber = chamber},
              !.temperature_records = {r \in @ : r.coke_oven = coke_oven}]

\* The cycle rows a PUSH p recorded on the store d adds.
CyclesOfPush(d, p) ==
    CokeOvenSystem_record_operation(d, initialize_ovens, p.coke_oven, p.chamber,
                                    "PUSH", p.time, "none").db.coking_cycles
    \ d.coking_cycles

\* C24: the cycle derived for a PUSH on a chamber of an oven is the one the same
\* PUSH gives on the store that holds only the events of that chamber and the
\* samples of that oven: events of other chambers and ovens and samples of
\* other ovens change neither whether a row is added nor its load time,
\* duration and averages.
C24_CycleIndependentOfOtherChambers ==
    [][\A p \in AddedPushes :
          AddedCycles = CyclesOfPush(OnlyOf(db, p.coke_oven, p.chamber), p)]_vars

\* A cycle with averages whose window holds, in the store, a LOAD of another
\* chamber of its oven and a sample of another oven with other readings.
C24_OtherEventsInsideTheWindow ==
    \E cy \in db.coking_cycles :
        /\ cy.avg_temp_machine # Null
        /\ \E l \in EventsOfKind(db, "LOAD") :
              /\ l.coke_oven = cy.coke_oven /\ l.chamber # cy.chamber
              /\ TextLess(cy.loading_time, l.time) /\ TextLess(l.time, cy.push_time)
        /\ \E s \in db.temperature_records :
              /\ s.coke_oven # cy.coke_oven
              /\ TextLess(cy.loading_time, s.time) /\ TextLess(s.time, cy.push_time)
              /\ BindReal(s.machine_side) # cy.avg_temp_machine

(***************************************************************************)
(* Properties: calls from several threads                                  *)
(***************************************************************************)
\* What the call of thread t does when it runs alone on the tables it found.
AloneResult(t) ==
    IF threads[t].op_type = "TEMP"
    THEN CokeOvenSystem_record_temperature(
             threads[t].found, initialize_ovens, threads[t].coke_oven, threads[t].time,
             threads[t].machine_temp, threads[t].coke_temp, "none")
    ELSE CokeOvenSystem_record_operation(
             threads[t].found, initialize_ovens, threads[t].coke_oven, threads[t].chamber,
             threads[t].op_type, threads[t].time, "none")

\* C11: calls of record_temperature and record_operation from several threads
\* take effect one at a time. While a thread is under the lock, and so between
\* the insert of its PUSH and the insert of its cycle, no step of another
\* thread changes the tables or the handle; and when the thread returns, the
\* tables are what its call alone makes of the tables it found under the lock.
C11_CallsTakeEffectAtomically ==
    [][\A t \in Threads :
          /\ (threads[t].pc \in {"locked", "inserted"} /\ threads'[t] = threads[t])
                => (db' = db /\ cell' = cell)
          /\ (threads[t].pc \in {"locked", "inserted"} /\ threads'[t].pc = "idle")
                => IF cell = "some"
                   THEN db' = AloneResult(t).db /\ last'.err = AloneResult(t).err
                   ELSE db' = threads[t].found /\ last'.err = "NotInitialized"]_vars

\* A PUSH is stored and its LOAD is on record, the cycle is not yet inserted,
\* and the other thread is inside an initialize.
C11_PushInsertedWhileOtherThreadRuns ==
    \E t, u \in Threads :
        /\ threads[t].pc = "inserted"
        /\ LoadCandidates(db, threads[t].coke_oven, threads[t].chamber, threads[t].time) # {}
        /\ db.temperature_records # {}
        /\ threads[u].pc = "built"

\* C20: every entry point, initialize and shutdown included, runs all its
\* steps holding the lock, so two threads are never inside entry points at
\* the same time.
C20_EveryStepHoldsTheLock ==
    /\ \A t \in Threads : threads[t].pc # "idle" => lock = t
    /\ \A t, u \in Threads : (threads[t].pc # "idle" /\ threads[u].pc # "idle") => t = u

=============================================================================
